---- MODULE Spec2Model ----
(***************************************************************************)
(* A model of the Skytable server core: the Skyhash-2 parser               *)
(* (protocol/mod.rs), the connection handler's run loop                     *)
(* (dbnet/connection.rs), the LMOD action (actions/lists/lmod.rs), the DDL  *)
(* handlers (queryengine/ddl.rs) and the registry flag they consult.        *)
(*                                                                          *)
(* Bytes are their ASCII codes; a buffer is a sequence of bytes; a slice    *)
(* (UnsafeSlice) is a pair <<start, len>> of an offset from the buffer's    *)
(* first byte and a length.                                                 *)
(***************************************************************************)
EXTENDS Integers, Sequences, FiniteSets, TLC

(***************************************************************************)
(* Bytes the parser distinguishes.                                          *)
(***************************************************************************)
LF == 10
STAR == 42
DOLLAR == 36
CH_0 == 48
CH_1 == 49
CH_9 == 57
CH_a == 97

(***************************************************************************)
(* Bounds of the model.                                                     *)
(***************************************************************************)
\* usize is modelled UsizeBits wide, so that overflow is within reach
UsizeBits == 6
\* longest buffer made of arbitrary bytes
MaxRaw == 4
\* most elements of an encoded simple query
MaxCount == 2
\* longest element of an encoded simple query
MaxElemSize == 1
\* most queries of an encoded pipeline
MaxPipe == 2
\* most bytes following an encoded frame in the buffer
MaxTail == 1

RECURSIVE Pow2(_)
Pow2(n) == IF n = 0 THEN 1 ELSE 2 * Pow2(n - 1)

USIZE_MAX == Pow2(UsizeBits) - 1

SeqsUpTo(S, n) == UNION {[1..m -> S] : m \in 0..n}

Drop(s, n) == SubSeq(s, n + 1, Len(s))

Take(s, n) == SubSeq(s, 1, n)

(***************************************************************************)
(* ParseError and its discriminants (#[repr(u8)]).                          *)
(***************************************************************************)
ParseErrorOfU8(d) ==
    CASE d = 0 -> "NotEnough"
      [] d = 1 -> "BadPacket"
      [] d = 2 -> "UnexpectedByte"
      [] d = 3 -> "DatatypeParseFailure"

\* a transmute with the two outcomes of has_lf exchanged
TransmuteBoolSwapped(b) == ParseErrorOfU8(IF b THEN 0 ELSE 1)

\* transmute::<bool, ParseError>: false is the byte 0, true the byte 1
TransmuteBool(b) == ParseErrorOfU8(IF b THEN 1 ELSE 0)

POk(v, cur) == [ok |-> TRUE, val |-> v, cur |-> cur, err |-> ""]

PErr(e) == [ok |-> FALSE, val |-> <<>>, cur |-> 0, err |-> e]

(***************************************************************************)
(* The parser's primitives.  cur is the cursor's offset from the buffer's   *)
(* start; the end pointer is Len(buf).                                      *)
(***************************************************************************)
remaining(buf, cur) == Len(buf) - cur

has_remaining(buf, cur, size) == remaining(buf, cur) >= size

not_exhausted(buf, cur) == cur < Len(buf)

get_byte_at_cursor(buf, cur) == buf[cur + 1]

\* a read_until that expects an LF after the element's bytes
read_until_lf(buf, cur, len) ==
    IF has_remaining(buf, cur, len + 1)
    THEN POk(<<cur, len>>, cur + len + 1)
    ELSE PErr("NotEnough")

\* a read_until that does not look at what remains
read_until_unchecked(buf, cur, len) == POk(<<cur, len>>, cur + len)

read_until(buf, cur, len) ==
    IF has_remaining(buf, cur, len)
    THEN POk(<<cur, len>>, cur + len)
    ELSE PErr("NotEnough")

\* the while loop of read_line_pedantic: the cursor stops at the first LF or
\* at the end of the buffer
RECURSIVE scan_line(_, _)
scan_line(buf, cur) ==
    IF not_exhausted(buf, cur) /\ get_byte_at_cursor(buf, cur) # LF
    THEN scan_line(buf, cur + 1)
    ELSE cur

\* UnsafeSlice::as_slice: the bytes a slice views
as_slice(buf, sl) == SubSeq(buf, sl[1] + 1, sl[1] + sl[2])

\* the tail of read_line, which takes an empty line
line_at_lenient(buf, cur, stop, has_lf) ==
    IF has_lf
    THEN POk(<<cur, stop - cur>>, stop + 1)
    ELSE PErr("NotEnough")

\* the tail of read_line_pedantic, the cursor having stopped at `stop`
line_at(buf, cur, stop, has_lf) ==
    IF has_lf /\ stop - cur # 0
    THEN POk(<<cur, stop - cur>>, stop + 1)
    ELSE PErr(TransmuteBool(has_lf))

\* a has_lf that takes the end of the buffer for an LF
lf_at_or_end(buf, stop) == ~not_exhausted(buf, stop) \/ get_byte_at_cursor(buf, stop) = LF

lf_at(buf, stop) == not_exhausted(buf, stop) /\ get_byte_at_cursor(buf, stop) = LF

line_from(buf, cur, stop) == line_at(buf, cur, stop, lf_at(buf, stop))

read_line_pedantic(buf, cur) == line_from(buf, cur, scan_line(buf, cur))

is_ascii_digit(b) == b >= CH_0 /\ b <= CH_9

\* usize::checked_mul / checked_add: -1 stands for None
checked_mul(a, b) == IF a * b > USIZE_MAX THEN -1 ELSE a * b

\* usize::wrapping_add in place of checked_add
wrapping_add(a, b) == (a + b) % Pow2(UsizeBits)

checked_add(a, b) == IF a + b > USIZE_MAX THEN -1 ELSE a + b

\* ret * 10 + digit with both checks: -1 when either overflows
push_digit(ret, byte) ==
    IF checked_mul(ret, 10) = -1 THEN -1 ELSE checked_add(ret * 10, byte % 16)

\* the for loop of read_usize over bytes[i..]: -1 stands for the early return
\* of DatatypeParseFailure
RECURSIVE usize_digits(_, _, _)
usize_digits(bytes, i, ret) ==
    IF ret = -1 THEN -1
    ELSE IF i > Len(bytes) THEN ret
    ELSE IF ~is_ascii_digit(bytes[i]) THEN -1
    ELSE usize_digits(bytes, i + 1, push_digit(ret, bytes[i]))

usize_of(cur, ret) == IF ret = -1 THEN PErr("DatatypeParseFailure") ELSE POk(ret, cur)

\* (the result handed on by `?` is a value computed once: it is bound as such
\* here and in the operators below that take the result of a read)
usize_of_line(buf, line) ==
    CHOOSE r \in {IF ~l.ok THEN l
                  ELSE usize_of(l.cur, usize_digits(as_slice(buf, l.val), 1, 0)) :
                  l \in {line}} : TRUE

read_usize(buf, cur) == usize_of_line(buf, read_line_pedantic(buf, cur))

\* the for loop of _next_simple_query: `left` elements are still to be read,
\* element_size and element are the results of the two reads of one round
RECURSIVE simple_elements(_, _, _, _)
RECURSIVE simple_element(_, _, _, _)
RECURSIVE simple_store(_, _, _, _)
\* a loop that writes the elements it reads back to front
simple_store_reversed(buf, left, data, element) ==
    CHOOSE r \in {IF ~e.ok THEN e
                  ELSE simple_elements(buf, e.cur, left - 1, <<e.val>> \o data) :
                  e \in {element}} : TRUE

simple_store(buf, left, data, element) ==
    CHOOSE r \in {IF ~e.ok THEN e
                  ELSE simple_elements(buf, e.cur, left - 1, Append(data, e.val)) :
                  e \in {element}} : TRUE

simple_element(buf, left, data, element_size) ==
    CHOOSE r \in {IF ~e.ok THEN e
                  ELSE simple_store(buf, left, data, read_until(buf, e.cur, e.val)) :
                  e \in {element_size}} : TRUE

simple_elements(buf, cur, left, data) ==
    IF left = 0 THEN POk(data, cur)
    ELSE simple_element(buf, left, data, read_usize(buf, cur))

simple_counted(buf, element_count) ==
    CHOOSE r \in {IF ~e.ok THEN e ELSE simple_elements(buf, e.cur, e.val, <<>>) :
                  e \in {element_count}} : TRUE

next_simple_query_inner(buf, cur) == simple_counted(buf, read_usize(buf, cur))

\* the for loop of next_pipeline
RECURSIVE pipeline_queries(_, _, _, _)
RECURSIVE pipeline_store(_, _, _, _)
pipeline_store(buf, left, queries, sq) ==
    CHOOSE r \in {IF ~q.ok THEN q
                  ELSE pipeline_queries(buf, q.cur, left - 1, Append(queries, q.val)) :
                  q \in {sq}} : TRUE

pipeline_queries(buf, cur, left, queries) ==
    IF left = 0 THEN POk(queries, cur)
    ELSE pipeline_store(buf, left, queries, next_simple_query_inner(buf, cur))

pipeline_counted(buf, query_count) ==
    CHOOSE r \in {IF ~q.ok THEN q ELSE pipeline_queries(buf, q.cur, q.val, <<>>) :
                  q \in {query_count}} : TRUE

next_pipeline(buf, cur) == pipeline_counted(buf, read_usize(buf, cur))

\* Parser::_parse followed by Parser::parse's computation of `consumed`.  The
\* data of a Query is a sequence of simple queries: one for Query::Simple, the
\* pipeline's queries for Query::Pipelined.
ParseOk(kind, data, consumed) ==
    [ok |-> TRUE, err |-> "", kind |-> kind, data |-> data, consumed |-> consumed]

ParseErr(e) ==
    [ok |-> FALSE, err |-> e, kind |-> "", data |-> <<>>, consumed |-> 0]

simple_result(r) ==
    IF r.ok THEN ParseOk("Simple", <<r.val>>, r.cur) ELSE ParseErr(r.err)

pipeline_result(r) ==
    IF r.ok THEN ParseOk("Pipelined", r.val, r.cur) ELSE ParseErr(r.err)

parse_first(buf, first_byte) ==
    IF first_byte = STAR THEN simple_result(next_simple_query_inner(buf, 1))
    ELSE IF first_byte = DOLLAR THEN pipeline_result(next_pipeline(buf, 1))
    ELSE ParseErr("UnexpectedByte")

parse(buf) ==
    IF not_exhausted(buf, 0)
    THEN parse_first(buf, get_byte_at_cursor(buf, 0))
    ELSE ParseErr("NotEnough")

(***************************************************************************)
(* Frames as the grammar lays them out (the layouts documented above        *)
(* _next_simple_query and next_pipeline), used to build the parser's inputs.*)
(***************************************************************************)
RECURSIVE Decimal(_)
Decimal(n) == IF n < 10 THEN <<CH_0 + n>> ELSE Decimal(n \div 10) \o <<CH_0 + (n % 10)>>

EncodeElement(e) == Decimal(Len(e)) \o <<LF>> \o e

RECURSIVE EncodeElements(_)
EncodeElements(q) ==
    IF q = <<>> THEN <<>> ELSE EncodeElement(Head(q)) \o EncodeElements(Tail(q))

EncodeSimpleBody(q) == Decimal(Len(q)) \o <<LF>> \o EncodeElements(q)

RECURSIVE EncodeBodies(_)
EncodeBodies(p) ==
    IF p = <<>> THEN <<>> ELSE EncodeSimpleBody(Head(p)) \o EncodeBodies(Tail(p))

EncodeFrame(f) ==
    IF f.kind = "Simple"
    THEN <<STAR>> \o EncodeSimpleBody(f.data[1])
    ELSE <<DOLLAR>> \o Decimal(Len(f.data)) \o <<LF>> \o EncodeBodies(f.data)

\* the owned form of a parsed query (into_owned): every slice replaced by its bytes
OwnedSimple(buf, q) == [i \in 1..Len(q) |-> as_slice(buf, q[i])]

OwnedQuery(buf, r) ==
    [kind |-> r.kind, data |-> [i \in 1..Len(r.data) |-> OwnedSimple(buf, r.data[i])]]

(***************************************************************************)
(* Inputs of the parser.                                                    *)
(***************************************************************************)
RawBytes == {STAR, DOLLAR, LF, CH_0, CH_1, CH_a}

ElemBytes == {CH_a, LF}

Elements == SeqsUpTo(ElemBytes, MaxElemSize)

SimpleQueries == SeqsUpTo(Elements, MaxCount)

\* the queries a pipeline is built from
PipeQueries == {<<>>, <<<<CH_a>>>>, <<<<CH_a>>, <<>>>>}

\* the query GET foo as the layout has it: *2\n3\nGET3\nfoo
GetFoo == [kind |-> "Simple", data |-> << << <<71, 69, 84>>, <<102, 111, 111>> >> >>]

Frames ==
    {[kind |-> "Simple", data |-> <<q>>] : q \in SimpleQueries}
    \cup {[kind |-> "Pipelined", data |-> p] : p \in SeqsUpTo(PipeQueries, MaxPipe)}
    \cup {GetFoo}

NoFrame == [kind |-> "None", data |-> <<>>]

\* the bytes *2\n3\nGET, and the same followed by \n3\nfoo\n
GetCut == <<STAR, CH_0 + 2, LF, CH_0 + 3, LF, 71, 69, 84>>

GetFooLf == GetCut \o <<LF, CH_0 + 3, LF, 102, 111, 111, LF>>

RawBuffers == SeqsUpTo(RawBytes, MaxRaw) \cup {GetFooLf}

VARIABLES
    pbuf,      \* the buffer handed to Parser::parse
    pframe,    \* the frame the buffer starts with, NoFrame for arbitrary bytes
    ptail,     \* the bytes after that frame
    pphase,    \* "fresh", "parsed" or "advanced"
    psplit,    \* the split point k of the last parse
    pres,      \* parse(pbuf[..k])
    pfull      \* parse(pbuf)

parseVars == <<pbuf, pframe, ptail, pphase, psplit, pres, pfull>>

VARIABLES
    cbuf,      \* the connection's read buffer (Connection::buffer)
    wire,      \* the bytes the peer has sent that no read has returned yet
    peer,      \* "open", or "closed" once the peer has shut its side down
    cpc,       \* where ConnectionHandler::run stands
    cquery,    \* the (Query, advance_by) read_query returned
    cout,      \* what has been written to the buffered writer, in order
    cflushed,  \* how much of cout has been flushed to the socket
    executor,  \* "unauth" or "auth": the function self.executor points to
    signal,    \* the terminator's broadcast has been raised
    cres,      \* "running", or what run returned: "Ok", "ConnectionReset", "IoError"
    perr,      \* a parser-error response has been written on this connection
    windows,   \* the build is for Windows: cfg(windows)
    cdone      \* how many frames run has advanced the buffer past

connVars == <<cbuf, wire, peer, cpc, cquery, cout, cflushed, executor, signal,
              cres, perr, windows, cdone>>

VARIABLES
    okay,       \* the registry's flag: state_okay()
    keyspaces,  \* the ObjectIDs of the keyspaces that exist
    tables,     \* the tables that exist: <<keyspace, table>> -> Table
    cur,        \* the connection's current <<keyspace, table>>, <<>> when unset
    call        \* the action run on the connection and the response it wrote,
                \* NoCall once that response is flushed

storeVars == <<okay, keyspaces, tables, cur, call>>

VARIABLES
    rwlock,    \* the list's RwLock: its writer (0 for none) and its readers
    hpc,       \* each handler's position in lmod
    hop,       \* the arguments of the LMOD call each handler runs
    hdone,     \* how many values of its batch a handler's extend has pushed
    hbase,     \* the list as a handler found it when it took the write lock
    hresp,     \* the response each handler wrote last
    hcalls,    \* how many calls each handler has begun
    rpc,       \* the position of the reader in KVEListMap::len
    seen       \* the length the reader read last

concVars == <<rwlock, hpc, hop, hdone, hbase, hresp, hcalls, rpc, seen>>

VARIABLES
    permits,   \* the permits the connection semaphore (climit) has available
    handler    \* per connection: "none", "accepted" (its permit is taken, the
               \* handler not yet made), "live", or how run ended while the
               \* handler is not yet dropped

permVars == <<permits, handler>>

VARIABLES
    rcode,     \* a response code
    rbyte,     \* a byte
    rextra,    \* the detail handed to from_u8
    rconv      \* what the conversions of terrapipe.rs made of them

codeVars == <<rcode, rbyte, rextra, rconv>>

vars == <<parseVars, connVars, storeVars, concVars, permVars, codeVars>>

ParseIdle ==
    /\ pbuf = <<>>
    /\ pframe = NoFrame
    /\ ptail = <<>>
    /\ pphase = "idle"
    /\ psplit = 0
    /\ pres = ParseErr("NotEnough")
    /\ pfull = ParseErr("NotEnough")

ConnIdle ==
    /\ cbuf = <<>>
    /\ wire = <<>>
    /\ peer = "open"
    /\ cpc = "idle"
    /\ cquery = ParseErr("NotEnough")
    /\ cout = <<>>
    /\ cflushed = 0
    /\ executor = "unauth"
    /\ signal = FALSE
    /\ cres = "running"
    /\ perr = FALSE
    /\ windows = FALSE
    /\ cdone = 0

NoCall == [action |-> "none", act |-> <<>>, resp |-> [group |-> "", tsym |-> 0, val |-> <<>>]]

StoreIdle ==
    /\ okay = TRUE
    /\ keyspaces = {}
    /\ tables = <<>>
    /\ cur = <<>>
    /\ call = NoCall

Handlers == {1, 2}

NoResp == [group |-> "", tsym |-> 0, val |-> <<>>]

ConcIdle ==
    /\ rwlock = [writer |-> 0, readers |-> {}]
    /\ hpc = [h \in Handlers |-> "idle"]
    /\ hop = [h \in Handlers |-> <<>>]
    /\ hdone = [h \in Handlers |-> 0]
    /\ hbase = [h \in Handlers |-> <<>>]
    /\ hresp = [h \in Handlers |-> NoResp]
    /\ hcalls = [h \in Handlers |-> 0]
    /\ rpc = "idle"
    /\ seen = 0

\* the limit of the connection semaphore, and the connections peers attempt
MaxPermits == 2

MaxSlots == 4

Slots == 1..MaxSlots

PermIdle ==
    /\ permits = MaxPermits
    /\ handler = [i \in Slots |-> "none"]

\* no conversion has been asked for
NoConv == [u8 |-> 0, ch |-> 0, back |-> <<>>, backch |-> <<>>, of_u8 |-> <<>>, of_utf8 |-> <<>>, made |-> FALSE]

CodeIdle ==
    /\ rcode = [code |-> "Okay", extra |-> <<>>]
    /\ rbyte = 0
    /\ rextra = <<>>
    /\ rconv = NoConv

InitParse ==
    /\ ConnIdle
    /\ StoreIdle
    /\ ConcIdle
    /\ PermIdle
    /\ CodeIdle
    /\ \/ /\ pframe \in Frames
          /\ ptail \in SeqsUpTo(RawBytes, MaxTail)
          /\ pbuf = EncodeFrame(pframe) \o ptail
       \/ /\ pframe = NoFrame
          /\ ptail = <<>>
          /\ pbuf \in RawBuffers
    /\ pphase = "fresh"
    /\ psplit = 0
    /\ pres = ParseErr("NotEnough")
    /\ pfull = ParseErr("NotEnough")

\* try_query on the first k bytes of the buffer and on all of it
TryQuery(k) ==
    /\ pphase = "fresh"
    /\ psplit' = k
    /\ pres' = parse(Take(pbuf, k))
    /\ pfull' = parse(pbuf)
    /\ pphase' = "parsed"
    /\ UNCHANGED <<pbuf, pframe, ptail>>
    /\ UNCHANGED <<connVars, storeVars, concVars, permVars, codeVars>>

\* advance_buffer by the count parse reported
AdvanceParsed ==
    /\ pphase = "parsed"
    /\ pfull.ok
    /\ pbuf' = Drop(pbuf, pfull.consumed)
    /\ pphase' = "advanced"
    /\ UNCHANGED <<pframe, ptail, psplit, pres, pfull>>
    /\ UNCHANGED <<connVars, storeVars, concVars, permVars, codeVars>>

NextParse ==
    \/ \E k \in 0..Len(pbuf) : TryQuery(k)
    \/ AdvanceParsed

SpecParse == InitParse /\ [][NextParse]_vars

(***************************************************************************)
(* The connection handler: ConnectionHandler::run with read_query,          *)
(* execute_query and the two executors, for one connection.  A step is what *)
(* runs between two awaits.  What an action answers is left open here:      *)
(* Ok(()), an ActionError or an IoError.                                    *)
(***************************************************************************)
\* most items the peer sends on one connection
MaxItems == 2

\* what the peer sends: complete frames, frames the parser rejects, and a
\* frame cut short
ItemSimple == <<STAR, CH_0, LF>>

ItemSimple1 == <<STAR, CH_1, LF, CH_0, LF>>

ItemPipeline == <<DOLLAR, CH_1, LF, CH_0, LF>>

ItemPipeline2 == <<DOLLAR, CH_0 + 2, LF, CH_0, LF, CH_0, LF>>

ItemUnexpected == <<CH_a>>

ItemBadPacket == <<STAR, LF>>

ItemBadType == <<STAR, CH_a, LF>>

ItemCut == <<STAR, CH_1, LF>>

ConnItems == {ItemSimple, ItemSimple1, ItemPipeline, ItemPipeline2, ItemUnexpected,
              ItemBadPacket, ItemBadType, ItemCut}

RECURSIVE Flatten(_)
Flatten(ss) == IF ss = <<>> THEN <<>> ELSE Head(ss) \o Flatten(Tail(ss))

\* frames whose count or size line is no usize: a sign, a space for a size,
\* a value one above usize::MAX (the add overflows), a value ten times
\* usize::MAX (the multiplication overflows)
ItemSign == <<STAR, 43, CH_1, LF>>

ItemSpaceSize == <<STAR, CH_1, LF, 32, LF>>

ItemAddOverflow == <<STAR>> \o Decimal(USIZE_MAX + 1) \o <<LF>>

ItemMulOverflow == <<STAR>> \o Decimal(USIZE_MAX) \o <<CH_0, LF>>

BadLengthItems == {ItemSign, ItemSpaceSize, ItemAddOverflow, ItemMulOverflow}

Wires == {Flatten(ss) : ss \in SeqsUpTo(ConnItems, MaxItems)} \cup BadLengthItems

\* what is written to the stream: a header or a response, with the number it
\* carries (a pipeline header's count, the index of the query a response answers)
Written(what, n) == [what |-> what, n |-> n]

R_PACKET_ERR == Written("packet-error", 0)

WRONGTYPE_ERR == Written("wrongtype-error", 0)

AUTH_CODE_BAD_CREDENTIALS == Written("bad-credentials", 0)

SIMPLE_QUERY_HEADER == Written("*", 0)

PipelineHeader(n) == Written("$", n)

InitConn ==
    /\ ParseIdle
    /\ StoreIdle
    /\ ConcIdle
    /\ PermIdle
    /\ CodeIdle
    /\ cbuf = <<>>
    /\ wire \in Wires
    /\ peer = "open"
    /\ cpc = "loop"
    /\ cquery = ParseErr("NotEnough")
    /\ cout = <<>>
    /\ cflushed = 0
    /\ executor \in {"unauth", "auth"}
    /\ signal = FALSE
    /\ cres = "running"
    /\ perr = FALSE
    /\ windows \in BOOLEAN
    /\ cdone = 0

Return(r) ==
    /\ cres' = r
    /\ cpc' = "done"

\* the server raises the terminator
RaiseTerminator ==
    /\ cpc # "idle"
    /\ ~signal
    /\ signal' = TRUE
    /\ UNCHANGED <<cbuf, wire, peer, cpc, cquery, cout, cflushed, executor, cres, perr>>
    /\ UNCHANGED <<parseVars, storeVars, concVars, permVars, codeVars, windows, cdone>>

\* the peer shuts down after the last byte it sent
PeerClose ==
    /\ cpc # "idle"
    /\ peer = "open"
    /\ peer' = "closed"
    /\ UNCHANGED <<cbuf, wire, cpc, cquery, cout, cflushed, executor, signal, cres, perr>>
    /\ UNCHANGED <<parseVars, storeVars, concVars, permVars, codeVars, windows, cdone>>

\* run: the while condition; the handler's own terminate flag is set only by
\* receive_signal, after which run has returned
RunLoop ==
    /\ cpc = "loop"
    /\ cpc' = "read"
    /\ UNCHANGED <<cbuf, wire, peer, cquery, cout, cflushed, executor, signal, cres, perr>>
    /\ UNCHANGED <<parseVars, storeVars, concVars, permVars, codeVars, windows, cdone>>

\* a select! without the terminator's branch
ReceiveSignalDeaf ==
    /\ FALSE
    /\ UNCHANGED vars

\* select!: the terminator's branch
ReceiveSignal ==
    /\ cpc = "read"
    /\ signal
    /\ Return("Ok")
    /\ UNCHANGED <<cbuf, wire, peer, cquery, cout, cflushed, executor, signal, perr>>
    /\ UNCHANGED <<parseVars, storeVars, concVars, permVars, codeVars, windows, cdone>>

\* read_query: read_buf returns n > 0 bytes, appended to the buffer
ReadSome(n) ==
    /\ cpc = "read"
    /\ n \in 1..Len(wire)
    /\ cbuf' = cbuf \o Take(wire, n)
    /\ wire' = Drop(wire, n)
    /\ cpc' = "parse"
    /\ UNCHANGED <<peer, cquery, cout, cflushed, executor, signal, cres, perr>>
    /\ UNCHANGED <<parseVars, storeVars, concVars, permVars, codeVars, windows, cdone>>

\* read_query that takes every end of stream for a clean disconnect
read_eof_clean(buffer) == "Disconnected"

\* read_query: what Ok(0) from read_buf makes of the buffer
read_eof(buffer) == IF buffer = <<>> THEN "Disconnected" ELSE "ConnectionReset"

\* run: what it returns for QueryResult::Disconnected and for an Err from
\* read_query, by the build
run_return(r, win) ==
    IF r = "Disconnected" THEN "Ok"
    ELSE IF win /\ r = "ConnectionReset" THEN "Ok"
    ELSE r

\* read_query: read_buf returns 0
ReadEof ==
    /\ cpc = "read"
    /\ wire = <<>>
    /\ peer = "closed"
    /\ Return(run_return(read_eof(cbuf), windows))
    /\ UNCHANGED <<cbuf, wire, peer, cquery, cout, cflushed, executor, signal, perr>>
    /\ UNCHANGED <<parseVars, storeVars, concVars, permVars, codeVars, windows, cdone>>

\* read_query: read_buf fails
ReadError ==
    /\ cpc = "read"
    /\ Return("IoError")
    /\ UNCHANGED <<cbuf, wire, peer, cquery, cout, cflushed, executor, signal, perr>>
    /\ UNCHANGED <<parseVars, storeVars, concVars, permVars, codeVars, windows, cdone>>

\* where read_query goes with the result of try_query
AfterTryQuery(r) ==
    IF r.ok THEN "exec"
    ELSE IF r.err = "NotEnough" THEN "read"
    ELSE IF r.err = "DatatypeParseFailure" THEN "wrongtype"
    ELSE "packeterr"

\* read_query: try_query on the whole buffer
TryQueryConn ==
    /\ cpc = "parse"
    /\ cquery' = parse(cbuf)
    /\ cpc' = AfterTryQuery(parse(cbuf))
    /\ UNCHANGED <<cbuf, wire, peer, cout, cflushed, executor, signal, cres, perr>>
    /\ UNCHANGED <<parseVars, storeVars, concVars, permVars, codeVars, windows, cdone>>

\* run: where the arms QueryResult::E and QueryResult::Wrongtype leave the
\* handler once close_conn_with_error has returned Ok
AfterParserError == "loop"

\* run: QueryResult::E(r) and QueryResult::Wrongtype: close_conn_with_error
\* writes the response and flushes
CloseConnWithParserError ==
    /\ cpc \in {"packeterr", "wrongtype"}
    /\ \/ /\ cout' = Append(cout, IF cpc = "wrongtype" THEN WRONGTYPE_ERR ELSE R_PACKET_ERR)
          /\ cflushed' = Len(cout) + 1
          /\ perr' = TRUE
          /\ cpc' = AfterParserError
          /\ UNCHANGED cres
       \/ /\ Return("IoError")
          /\ UNCHANGED <<cout, cflushed, perr>>
    /\ UNCHANGED <<cbuf, wire, peer, cquery, executor, signal>>
    /\ UNCHANGED <<parseVars, storeVars, concVars, permVars, codeVars, windows, cdone>>

\* the header an executor writes before it dispatches
HeaderOf(exec, q) ==
    IF exec = "auth" /\ q.kind = "Pipelined"
    THEN PipelineHeader(Len(q.data))
    ELSE SIMPLE_QUERY_HEADER

\* what follows the header when every action answers Ok: one response per
\* dispatched query, or bad-credentials for a pipeline sent unauthenticated
\* the dispatcher an executor hands a query to, named by what its response is
\* written as: execute_simple_noauth under execute_unauth, execute_simple and
\* execute_pipeline under execute_auth
Dispatcher(exec) == IF exec = "unauth" THEN "response-noauth" ELSE "response"

\* the response of the i-th query of a frame
StageResponse(exec, i) == Written(Dispatcher(exec), i)

\* an executor that dispatches every query of a frame, authenticated or not
BodyOfDispatching(exec, q) == [i \in 1..Len(q.data) |-> StageResponse(exec, i)]

BodyOf(exec, q) ==
    IF exec = "unauth" /\ q.kind = "Pipelined"
    THEN <<AUTH_CODE_BAD_CREDENTIALS>>
    ELSE [i \in 1..Len(q.data) |-> StageResponse(exec, i)]

\* the place in cout of the last query header written
RECURSIVE LastHeader(_, _)
LastHeader(out, i) ==
    IF i = 0 THEN 0
    ELSE IF out[i].what \in {"*", "$"} THEN i
    ELSE LastHeader(out, i - 1)

\* how many responses follow the last query header
StagesDone(out) == Len(out) - LastHeader(out, Len(out))

\* an execute_pipeline that answers every query as the first one
NextStageFirst(out) == 1

\* execute_pipeline: the query its loop stands at
NextStage(out) == StagesDone(out) + 1

\* where execute_auth stands once `done` of the pipeline's queries are answered
AfterStage(q, done) == IF done = Len(q.data) THEN "flush" ELSE "pipe"

\* the executors a dispatch may leave in place: the actions are handed the
\* AuthProviderHandle and may call its swap_executor_to_*; execute_unauth
\* runs no action for a pipeline
ExecutorsAfter(exec, q) ==
    IF exec = "unauth" /\ q.kind = "Pipelined" THEN {exec} ELSE {"unauth", "auth"}

\* a pipeline loop that looks the executor up again for every query
PipelineDispatcherByPointer(exec) == Dispatcher(exec)

\* execute_auth, Query::Pipelined: the pipeline is handed to execute_pipeline
\* by the execute_auth that execute_query called; self.executor is not read
\* again
PipelineDispatcher(exec) == Dispatcher("auth")

\* execute_query: (self.executor)(self, query), every action answering Ok
ExecuteOk ==
    /\ cpc = "exec"
    /\ ~(executor = "auth" /\ cquery.kind = "Pipelined")
    /\ cout' = cout \o <<HeaderOf(executor, cquery)>> \o BodyOf(executor, cquery)
    /\ executor' \in ExecutorsAfter(executor, cquery)
    /\ cpc' = "flush"
    /\ UNCHANGED <<cbuf, wire, peer, cquery, cflushed, signal, cres, perr>>
    /\ UNCHANGED <<parseVars, storeVars, concVars, permVars, codeVars, windows, cdone>>

\* execute_auth, Query::Pipelined: write_pipeline_query_header(pipeline.len())
WritePipelineHeader ==
    /\ cpc = "exec"
    /\ executor = "auth"
    /\ cquery.kind = "Pipelined"
    /\ cout' = Append(cout, PipelineHeader(Len(cquery.data)))
    /\ cpc' = AfterStage(cquery, 0)
    /\ UNCHANGED <<cbuf, wire, peer, cquery, cflushed, executor, signal, cres, perr>>
    /\ UNCHANGED <<parseVars, storeVars, concVars, permVars, codeVars, windows, cdone>>

\* execute_pipeline: one query of the pipeline is run and its response (its
\* result or its action error) written before the next is taken up
ExecuteStage ==
    /\ cpc = "pipe"
    /\ cout' = Append(cout, Written(PipelineDispatcher(executor), NextStage(cout)))
    /\ cpc' = AfterStage(cquery, NextStage(cout))
    /\ executor' \in ExecutorsAfter("auth", cquery)
    /\ UNCHANGED <<cbuf, wire, peer, cquery, cflushed, signal, cres, perr>>
    /\ UNCHANGED <<parseVars, storeVars, concVars, permVars, codeVars, windows, cdone>>

\* execute_query: the executor returns an ActionError after the header: the
\* action of a simple query failed
ExecuteActionError ==
    /\ cpc = "exec"
    /\ cquery.kind = "Simple"
    /\ cout' = Append(cout, HeaderOf(executor, cquery))
    /\ cpc' = "actionerr"
    /\ UNCHANGED <<cbuf, wire, peer, cquery, cflushed, executor, signal, cres, perr>>
    /\ UNCHANGED <<parseVars, storeVars, concVars, permVars, codeVars, windows, cdone>>

\* execute_query: a write fails; run returns the error
ExecuteIoError ==
    /\ cpc \in {"exec", "pipe", "flush", "actionerr"}
    /\ Return("IoError")
    /\ UNCHANGED <<cbuf, wire, peer, cquery, cout, cflushed, executor, signal, perr>>
    /\ UNCHANGED <<parseVars, storeVars, concVars, permVars, codeVars, windows, cdone>>

\* an execute_query that returns without flush_stream
FlushStreamSkipped ==
    /\ cpc = "flush"
    /\ cpc' = "advance"
    /\ UNCHANGED <<cbuf, wire, peer, cquery, cout, cflushed, executor, signal, cres, perr>>
    /\ UNCHANGED <<parseVars, storeVars, concVars, permVars, codeVars, windows, cdone>>

\* execute_query: flush_stream after the executor returned Ok
FlushStream ==
    /\ cpc = "flush"
    /\ cflushed' = Len(cout)
    /\ cpc' = "advance"
    /\ UNCHANGED <<cbuf, wire, peer, cquery, cout, executor, signal, cres, perr>>
    /\ UNCHANGED <<parseVars, storeVars, concVars, permVars, codeVars, windows, cdone>>

\* close_conn_with_error(e) that writes e, flushes and ends run
CloseConnWithActionErrorClosing ==
    /\ cpc = "actionerr"
    /\ cout' = Append(cout, Written("action-error", 0))
    /\ cflushed' = Len(cout) + 1
    /\ Return("Ok")
    /\ UNCHANGED <<cbuf, wire, peer, cquery, executor, signal, perr>>
    /\ UNCHANGED <<parseVars, storeVars, concVars, permVars, codeVars, windows, cdone>>

\* run: Err(ActionError(e)): close_conn_with_error(e) writes e and flushes
CloseConnWithActionError ==
    /\ cpc = "actionerr"
    /\ cout' = Append(cout, Written("action-error", 0))
    /\ cflushed' = Len(cout) + 1
    /\ cpc' = "advance"
    /\ UNCHANGED <<cbuf, wire, peer, cquery, executor, signal, cres, perr>>
    /\ UNCHANGED <<parseVars, storeVars, concVars, permVars, codeVars, windows, cdone>>

\* a run that clears the buffer where it should advance it
AdvanceBufferClear ==
    /\ cpc = "advance"
    /\ cbuf' = <<>>
    /\ cdone' = cdone + 1
    /\ cpc' = "loop"
    /\ UNCHANGED <<wire, peer, cquery, cout, cflushed, executor, signal, cres, perr>>
    /\ UNCHANGED <<parseVars, storeVars, concVars, permVars, codeVars, windows>>

\* a run that advances the buffer once the executor has returned and leaves
\* the flush for later
AdvanceBufferUnflushed ==
    /\ cpc \in {"flush", "advance"}
    /\ cbuf' = Drop(cbuf, cquery.consumed)
    /\ cdone' = cdone + 1
    /\ cpc' = "loop"
    /\ UNCHANGED <<wire, peer, cquery, cout, cflushed, executor, signal, cres, perr>>
    /\ UNCHANGED <<parseVars, storeVars, concVars, permVars, codeVars, windows>>

\* run: advance_buffer(advance_by)
AdvanceBuffer ==
    /\ cpc = "advance"
    /\ cbuf' = Drop(cbuf, cquery.consumed)
    /\ cdone' = cdone + 1
    /\ cpc' = "loop"
    /\ UNCHANGED <<wire, peer, cquery, cout, cflushed, executor, signal, cres, perr>>
    /\ UNCHANGED <<parseVars, storeVars, concVars, permVars, codeVars, windows>>

NextConn ==
    \/ RaiseTerminator
    \/ PeerClose
    \/ RunLoop
    \/ ReceiveSignal
    \/ \E n \in 1..Len(wire) : ReadSome(n)
    \/ ReadEof
    \/ ReadError
    \/ TryQueryConn
    \/ CloseConnWithParserError
    \/ ExecuteOk
    \/ WritePipelineHeader
    \/ ExecuteStage
    \/ ExecuteActionError
    \/ ExecuteIoError
    \/ FlushStream
    \/ CloseConnWithActionError
    \/ AdvanceBuffer

SpecConn == InitConn /\ [][NextConn]_vars

\* the steps of the handler's own task: the runtime polls a task that can go
\* on, so the task is not left standing for ever while one of them is possible.
\* The terminator, the peer and failing reads and writes are the environment's.
HandlerStep ==
    \/ RunLoop
    \/ ReceiveSignal
    \/ \E n \in 1..Len(wire) : ReadSome(n)
    \/ ReadEof
    \/ TryQueryConn
    \/ CloseConnWithParserError
    \/ ExecuteOk
    \/ WritePipelineHeader
    \/ ExecuteStage
    \/ ExecuteActionError
    \/ FlushStream
    \/ CloseConnWithActionError
    \/ AdvanceBuffer

SpecConnFair == SpecConn /\ WF_vars(HandlerStep)

(***************************************************************************)
(* The store and the LMOD action.  An action of this part is one whole     *)
(* handler call; the registry's flag does not change during it.             *)
(***************************************************************************)
\* longest list
MaxListLen == 3
\* most values of one PUSH
MaxBatch == 2

\* response groups and the value a POP writes (write_raw_mono)
Group(g) == [group |-> g, tsym |-> 0, val |-> <<>>]

OKAY == Group("okay")

NIL == Group("nil")

SERVER_ERR == Group("server-error")

ENCODING_ERROR == Group("encoding-error")

WRONGTYPE == Group("wrongtype-error")

LISTMAP_BAD_INDEX == Group("bad-index")

ACTION_ERR == Group("action-error")

UNKNOWN_ACTION == Group("unknown-action")

TSYMBOL_BINARY == 63

TSYMBOL_UNICODE == 43

Mono(tsym, val) == [group |-> "mono", tsym |-> tsym, val |-> val]

\* OKAY_BADIDX_NIL_NLUT, indexed by Option<bool>
OKAY_BADIDX_NIL_NLUT(maybe) ==
    CASE maybe = "Some(true)" -> OKAY
      [] maybe = "Some(false)" -> LISTMAP_BAD_INDEX
      [] maybe = "None" -> NIL

\* the subcommands, as bytes
CLEAR == <<67, 76, 69, 65, 82>>

PUSH == <<80, 85, 83, 72>>

REMOVE == <<82, 69, 77, 79, 86, 69>>

INSERT == <<73, 78, 83, 69, 82, 84>>

POP == <<80, 79, 80>>

to_ascii_uppercase(b) == IF b >= 97 /\ b <= 122 THEN b - 32 ELSE b

next_uppercase(bytes) == [i \in 1..Len(bytes) |-> to_ascii_uppercase(bytes[i])]

\* encoding::is_utf8 on the bytes of the model: ASCII is valid, 0xFF never is
is_utf8(bytes) == \A i \in 1..Len(bytes) : bytes[i] < 128

\* the model codes: 0..3 KVEBlob, 4..7 KVEList; within each, bin/bin, bin/uni,
\* uni/bin, uni/uni (key encoding / value encoding)
IsListModel(model) == model >= 4

KeyEncoded(model) == (model % 4) >= 2

ValEncoded(model) == (model % 2) = 1

\* s_encoder!(encoded): the validator is is_utf8 when encoded, and accepts
\* everything otherwise
s_encoder(encoded, bytes) == IF encoded THEN is_utf8(bytes) ELSE TRUE

encode_key(t, key) == s_encoder(KeyEncoded(t.model), key)

is_val_ok(t, val) == s_encoder(ValEncoded(t.model), val)

get_value_tsymbol(t) == IF ValEncoded(t.model) THEN TSYMBOL_UNICODE ELSE TSYMBOL_BINARY

\* String::from_utf8_lossy(..).parse::<usize>(): an optional '+', then one
\* or more ASCII digits, within usize; -1 stands for Err
parse_digits(bytes) == IF bytes = <<>> THEN -1 ELSE usize_digits(bytes, 1, 0)

parse_usize(bytes) ==
    IF bytes # <<>> /\ bytes[1] = 43
    THEN parse_digits(Tail(bytes))
    ELSE parse_digits(bytes)

\* an insert that lands one place further right
VecInsertAfter(s, idx, v) == Take(s, idx + 1) \o <<v>> \o Drop(s, idx + 1)

\* a remove that takes the element one place further right
VecRemoveNext(s, idx) == Take(s, idx + 1) \o Drop(s, idx + 2)

\* Vec::insert and Vec::remove at a zero-based index
VecInsert(s, idx, v) == Take(s, idx) \o <<v>> \o Drop(s, idx)

VecRemove(s, idx) == Take(s, idx) \o Drop(s, idx + 1)

\* what a handler call leaves: the response and the table's lists
Out(resp, lists) == [resp |-> resp, lists |-> lists]

\* CLEAR that takes the list out of the table
lmod_clear_drop(t, listname, rest, ok) ==
    IF Len(rest) # 0 THEN Out(ACTION_ERR, t.lists)
    ELSE IF listname \notin DOMAIN t.lists THEN Out(NIL, t.lists)
    ELSE IF ok THEN Out(OKAY, [n \in DOMAIN t.lists \ {listname} |-> t.lists[n]])
    ELSE Out(SERVER_ERR, t.lists)

\* POP that answers with the first element of the list
lmod_pop_list_first(t, listname, idx, list) ==
    IF idx = -2
    THEN IF list = <<>>
         THEN Out(LISTMAP_BAD_INDEX, t.lists)
         ELSE Out(Mono(get_value_tsymbol(t), list[1]),
                  [t.lists EXCEPT ![listname] = Take(@, Len(@) - 1)])
    ELSE IF idx < Len(list)
    THEN Out(Mono(get_value_tsymbol(t), list[1]),
             [t.lists EXCEPT ![listname] = Take(@, idx) \o Drop(@, idx + 1)])
    ELSE Out(LISTMAP_BAD_INDEX, t.lists)

lmod_clear(t, listname, rest, ok) ==
    IF Len(rest) # 0 THEN Out(ACTION_ERR, t.lists)
    ELSE IF listname \notin DOMAIN t.lists THEN Out(NIL, t.lists)
    ELSE IF ok THEN Out(OKAY, [t.lists EXCEPT ![listname] = <<>>])
    ELSE Out(SERVER_ERR, t.lists)

\* PUSH that puts the batch in front of the list
lmod_push_front(t, listname, rest, ok) ==
    IF rest = <<>> THEN Out(ACTION_ERR, t.lists)
    ELSE IF listname \notin DOMAIN t.lists THEN Out(NIL, t.lists)
    ELSE IF \A i \in 1..Len(rest) : is_val_ok(t, rest[i])
    THEN IF ok
         THEN Out(OKAY, [t.lists EXCEPT ![listname] = rest \o @])
         ELSE Out(SERVER_ERR, t.lists)
    ELSE Out(ENCODING_ERROR, t.lists)

\* PUSH that appends the values in front of the first bad one
lmod_push_partial(t, listname, rest, ok) ==
    IF rest = <<>> THEN Out(ACTION_ERR, t.lists)
    ELSE IF listname \notin DOMAIN t.lists THEN Out(NIL, t.lists)
    ELSE IF \A i \in 1..Len(rest) : is_val_ok(t, rest[i])
    THEN IF ok
         THEN Out(OKAY, [t.lists EXCEPT ![listname] = @ \o rest])
         ELSE Out(SERVER_ERR, t.lists)
    ELSE Out(ENCODING_ERROR,
             [t.lists EXCEPT ![listname] =
                 @ \o SubSeq(rest, 1, (CHOOSE i \in 1..Len(rest) :
                                          /\ ~is_val_ok(t, rest[i])
                                          /\ \A j \in 1..(i - 1) : is_val_ok(t, rest[j])) - 1)])

lmod_push(t, listname, rest, ok) ==
    IF rest = <<>> THEN Out(ACTION_ERR, t.lists)
    ELSE IF listname \notin DOMAIN t.lists THEN Out(NIL, t.lists)
    ELSE IF \A i \in 1..Len(rest) : is_val_ok(t, rest[i])
    THEN IF ok
         THEN Out(OKAY, [t.lists EXCEPT ![listname] = @ \o rest])
         ELSE Out(SERVER_ERR, t.lists)
    ELSE Out(ENCODING_ERROR, t.lists)

\* REMOVE that takes a list it has emptied out of the table
lmod_remove_at_drop(t, listname, idx, ok) ==
    IF idx = -1 THEN Out(WRONGTYPE, t.lists)
    ELSE IF ~ok THEN Out(SERVER_ERR, t.lists)
    ELSE IF listname \notin DOMAIN t.lists
    THEN Out(OKAY_BADIDX_NIL_NLUT("None"), t.lists)
    ELSE IF idx < Len(t.lists[listname])
    THEN Out(OKAY_BADIDX_NIL_NLUT("Some(true)"),
             IF Len(t.lists[listname]) = 1
             THEN [n \in DOMAIN t.lists \ {listname} |-> t.lists[n]]
             ELSE [t.lists EXCEPT ![listname] = VecRemove(@, idx)])
    ELSE Out(OKAY_BADIDX_NIL_NLUT("Some(false)"), t.lists)

\* REMOVE with the index parsed
lmod_remove_at(t, listname, idx, ok) ==
    IF idx = -1 THEN Out(WRONGTYPE, t.lists)
    ELSE IF ~ok THEN Out(SERVER_ERR, t.lists)
    ELSE IF listname \notin DOMAIN t.lists
    THEN Out(OKAY_BADIDX_NIL_NLUT("None"), t.lists)
    ELSE IF idx < Len(t.lists[listname])
    THEN Out(OKAY_BADIDX_NIL_NLUT("Some(true)"),
             [t.lists EXCEPT ![listname] = VecRemove(@, idx)])
    ELSE Out(OKAY_BADIDX_NIL_NLUT("Some(false)"), t.lists)

lmod_remove(t, listname, rest, ok) ==
    IF Len(rest) # 1 THEN Out(ACTION_ERR, t.lists)
    ELSE lmod_remove_at(t, listname, parse_usize(rest[1]), ok)

\* INSERT with the index parsed
lmod_insert_at(t, listname, idx, bts, ok) ==
    IF idx = -1 THEN Out(WRONGTYPE, t.lists)
    ELSE IF ~is_val_ok(t, bts) THEN Out(ENCODING_ERROR, t.lists)
    ELSE IF ~ok THEN Out(SERVER_ERR, t.lists)
    ELSE IF ~encode_key(t, listname) THEN Out(ENCODING_ERROR, t.lists)
    ELSE IF listname \notin DOMAIN t.lists
    THEN Out(OKAY_BADIDX_NIL_NLUT("None"), t.lists)
    ELSE IF idx < Len(t.lists[listname])
    THEN Out(OKAY_BADIDX_NIL_NLUT("Some(true)"),
             [t.lists EXCEPT ![listname] = VecInsert(@, idx, bts)])
    ELSE Out(OKAY_BADIDX_NIL_NLUT("Some(false)"), t.lists)

lmod_insert(t, listname, rest, ok) ==
    IF Len(rest) # 2 THEN Out(ACTION_ERR, t.lists)
    ELSE lmod_insert_at(t, listname, parse_usize(rest[1]), rest[2], ok)

\* a POP that answers nil for a list with nothing to pop
lmod_pop_list_nil(t, listname, idx, list) ==
    IF idx = -2
    THEN IF list = <<>>
         THEN Out(NIL, t.lists)
         ELSE Out(Mono(get_value_tsymbol(t), list[Len(list)]),
                  [t.lists EXCEPT ![listname] = Take(@, Len(@) - 1)])
    ELSE IF idx < Len(list)
    THEN Out(Mono(get_value_tsymbol(t), list[idx + 1]),
             [t.lists EXCEPT ![listname] = VecRemove(@, idx)])
    ELSE Out(LISTMAP_BAD_INDEX, t.lists)

\* POP on an existing list: idx is the index given, -2 when none was given
lmod_pop_list(t, listname, idx, list) ==
    IF idx = -2
    THEN IF list = <<>>
         THEN Out(LISTMAP_BAD_INDEX, t.lists)
         ELSE Out(Mono(get_value_tsymbol(t), list[Len(list)]),
                  [t.lists EXCEPT ![listname] = Take(@, Len(@) - 1)])
    ELSE IF idx < Len(list)
    THEN Out(Mono(get_value_tsymbol(t), list[idx + 1]),
             [t.lists EXCEPT ![listname] = VecRemove(@, idx)])
    ELSE Out(LISTMAP_BAD_INDEX, t.lists)

lmod_pop_at(t, listname, idx, ok) ==
    IF idx = -1 THEN Out(WRONGTYPE, t.lists)
    ELSE IF ~ok THEN Out(SERVER_ERR, t.lists)
    ELSE IF ~encode_key(t, listname) THEN Out(ENCODING_ERROR, t.lists)
    ELSE IF listname \notin DOMAIN t.lists THEN Out(NIL, t.lists)
    ELSE lmod_pop_list(t, listname, idx, t.lists[listname])

lmod_pop(t, listname, rest, ok) ==
    IF ~(Len(rest) < 2) THEN Out(ACTION_ERR, t.lists)
    ELSE IF Len(rest) = 1 THEN lmod_pop_at(t, listname, parse_usize(rest[1]), ok)
    ELSE lmod_pop_at(t, listname, -2, ok)

\* the match on the uppercased subcommand
lmod_match(t, listname, sub, rest, ok) ==
    CASE sub = CLEAR -> lmod_clear(t, listname, rest, ok)
      [] sub = PUSH -> lmod_push(t, listname, rest, ok)
      [] sub = REMOVE -> lmod_remove(t, listname, rest, ok)
      [] sub = INSERT -> lmod_insert(t, listname, rest, ok)
      [] sub = POP -> lmod_pop(t, listname, rest, ok)
      [] OTHER -> Out(UNKNOWN_ACTION, t.lists)

\* lmod on the table get_table_with::<KVEList>() returned
lmod(t, act, ok) ==
    lmod_match(t, act[1], next_uppercase(act[2]), Drop(act, 2), ok)

\* get_table_with::<KVEList>() on the connection's current table
DEFAULT_UNSET == Group("default-container-unset")

CONTAINER_NOT_FOUND == Group("container-not-found")

WRONG_MODEL == Group("wrong-model")

get_table_with_list(tbls, sel) ==
    IF sel = <<>> THEN DEFAULT_UNSET
    ELSE IF sel \notin DOMAIN tbls THEN CONTAINER_NOT_FOUND
    ELSE IF ~IsListModel(tbls[sel].model) THEN WRONG_MODEL
    ELSE OKAY

\* the lmod handler from its first line: the response it writes
lmod_response(tbls, sel, act, ok) ==
    IF ~(Len(act) > 1) THEN ACTION_ERR
    ELSE IF get_table_with_list(tbls, sel) # OKAY THEN get_table_with_list(tbls, sel)
    ELSE lmod(tbls[sel], act, ok).resp

\* the lmod handler from its first line: the tables it leaves
lmod_tables(tbls, sel, act, ok) ==
    IF ~(Len(act) > 1) \/ get_table_with_list(tbls, sel) # OKAY THEN tbls
    ELSE [tbls EXCEPT ![sel].lists = lmod(tbls[sel], act, ok).lists]

\* inputs: list names, values, index arguments, argument lists
NameL == <<76>>

NameM == <<77>>

NameX == <<255>>

VA == <<97>>

VB == <<98>>

VX == <<255>>

Names == {NameL, NameM, NameX}

Values == {VA, VB, VX}

\* "pop", and a subcommand lmod does not know
PopLower == <<112, 111, 112>>

Zap == <<90, 65, 80>>

IdxArgs ==
    {Decimal(i) : i \in 0..MaxListLen} \cup {Decimal(USIZE_MAX + 1), <<43, 49>>, <<97>>, <<>>}

Batches == SeqsUpTo(Values, MaxBatch) \ {<<>>}

LmodTails ==
    {<<CLEAR>>, <<CLEAR, VA>>, <<PUSH>>, <<REMOVE>>, <<POP>>, <<PopLower>>, <<Zap>>}
    \cup {<<PUSH>> \o b : b \in Batches}
    \cup {<<REMOVE, i>> : i \in IdxArgs}
    \cup {<<INSERT, i>> : i \in IdxArgs}
    \cup {<<INSERT, i, v>> : i \in IdxArgs, v \in Values}
    \cup {<<POP, i>> : i \in IdxArgs}
    \cup {<<POP, Decimal(0), Decimal(0)>>}

LmodActs == {<<n>> \o t : n \in Names, t \in LmodTails} \cup {<<NameL>>}

ListsWithin(tbls) ==
    \A e \in DOMAIN tbls : \A n \in DOMAIN tbls[e].lists :
        Len(tbls[e].lists[n]) <= MaxListLen

Table(model, volatile, lists) == [model |-> model, volatile |-> volatile, lists |-> lists]

KsDefault == <<100, 101, 102, 97, 117, 108, 116>>

KsK == <<107>>

TblT == <<116>>

DefaultTable == <<KsDefault, TblT>>

InitModels == {0, 4, 7}

\* a list no call of the model names
NameO == <<79>>

InitLists == {<<>>, NameL :> <<>>, NameL :> <<VA>>, (NameL :> <<VA>>) @@ (NameO :> <<VB>>)}

InitStore ==
    /\ okay = TRUE
    /\ keyspaces = {KsDefault}
    /\ \E model \in InitModels, lists \in InitLists :
        tables = DefaultTable :> Table(model, FALSE, IF IsListModel(model) THEN lists ELSE <<>>)
    /\ cur \in {<<>>, DefaultTable}
    /\ call = NoCall

Init ==
    /\ ParseIdle
    /\ ConnIdle
    /\ InitStore
    /\ ConcIdle
    /\ PermIdle
    /\ CodeIdle

\* one LMOD query run by the connection, its response written
Lmod(act) ==
    /\ call = NoCall
    /\ call' = [action |-> "LMOD", act |-> act, resp |-> lmod_response(tables, cur, act, okay)]
    /\ tables' = lmod_tables(tables, cur, act, okay)
    /\ ListsWithin(tables')
    /\ UNCHANGED <<okay, keyspaces, cur>>
    /\ UNCHANGED <<parseVars, connVars, concVars, permVars, codeVars>>

(***************************************************************************)
(* The DDL handlers (queryengine/ddl.rs) over the Corestore's operations.   *)
(***************************************************************************)
ALREADY_EXISTS == Group("already-exists")

NOT_EMPTY == Group("not-empty")

UNKNOWN_DDL_QUERY == Group("unknown-ddl-query")

UNKNOWN_PROPERTY == Group("unknown-property")

BAD_EXPRESSION == Group("bad-expression")

CONTAINER_NAME_TOO_LONG == Group("container-name-too-long")

TABLE == <<84, 65, 66, 76, 69>>

KEYSPACE == <<75, 69, 89, 83, 80, 65, 67, 69>>

VOLATILE == <<118, 111, 108, 97, 116, 105, 108, 101>>

FORCE_REMOVE == <<102, 111, 114, 99, 101>>

\* what a DDL call leaves: the response, the keyspaces and the tables
DdlOut(resp, kss, tbls) == [resp |-> resp, keyspaces |-> kss, tables |-> tbls]

IsAlpha(b) == (b >= 65 /\ b <= 90) \/ (b >= 97 /\ b <= 122) \/ b = 95

IsAlnum(b) == IsAlpha(b) \/ (b >= 48 /\ b <= 57)

\* VALID_CONTAINER_NAME: ^[A-Za-z_][A-Za-z0-9_]{0,63}$
VALID_CONTAINER_NAME(bytes) ==
    /\ bytes # <<>>
    /\ Len(bytes) <= 64
    /\ IsAlpha(bytes[1])
    /\ \A i \in 2..Len(bytes) : IsAlnum(bytes[i])

\* Corestore::create_keyspace
cs_create_keyspace(kss, tbls, ksid) ==
    IF ksid \in kss THEN DdlOut(ALREADY_EXISTS, kss, tbls)
    ELSE DdlOut(OKAY, kss \cup {ksid}, tbls)

\* Corestore::create_table, the entity resolved to <<keyspace, table>>
cs_create_table(kss, tbls, entity, model, volatile) ==
    IF entity[1] \notin kss THEN DdlOut(CONTAINER_NOT_FOUND, kss, tbls)
    ELSE IF entity \in DOMAIN tbls THEN DdlOut(ALREADY_EXISTS, kss, tbls)
    ELSE DdlOut(OKAY, kss, (entity :> Table(model, volatile, <<>>)) @@ tbls)

\* Corestore::drop_table
cs_drop_table(kss, tbls, entity) ==
    IF entity \notin DOMAIN tbls THEN DdlOut(CONTAINER_NOT_FOUND, kss, tbls)
    ELSE DdlOut(OKAY, kss, [e \in DOMAIN tbls \ {entity} |-> tbls[e]])

\* Corestore::drop_keyspace
cs_drop_keyspace(kss, tbls, ksid) ==
    IF ksid \notin kss THEN DdlOut(CONTAINER_NOT_FOUND, kss, tbls)
    ELSE IF \E e \in DOMAIN tbls : e[1] = ksid THEN DdlOut(NOT_EMPTY, kss, tbls)
    ELSE DdlOut(OKAY, kss \ {ksid}, tbls)

\* Corestore::force_drop_keyspace
cs_force_drop_keyspace(kss, tbls, ksid) ==
    IF ksid \notin kss THEN DdlOut(CONTAINER_NOT_FOUND, kss, tbls)
    ELSE DdlOut(OKAY, kss \ {ksid}, [e \in {x \in DOMAIN tbls : x[1] # ksid} |-> tbls[e]])

\* parser::Entity::from_slice: `table` or `keyspace:table`; <<>> stands for
\* an entity that does not parse
ColonAt(bytes) ==
    IF \E i \in 1..Len(bytes) : bytes[i] = 58
    THEN CHOOSE i \in 1..Len(bytes) : bytes[i] = 58 /\ \A j \in 1..(i - 1) : bytes[j] # 58
    ELSE 0

entity_parts(bytes, colon) ==
    IF colon = 0 THEN <<bytes>> ELSE <<Take(bytes, colon - 1), Drop(bytes, colon)>>

entity_from_slice(bytes) == entity_parts(bytes, ColonAt(bytes))

\* the error an entity's parts give, OKAY when they are fine
entity_check(parts) ==
    IF \E i \in 1..Len(parts) : ~VALID_CONTAINER_NAME(parts[i]) THEN BAD_EXPRESSION
    ELSE IF \E i \in 1..Len(parts) : ~(Len(parts[i]) < 64) THEN CONTAINER_NAME_TOO_LONG
    ELSE OKAY

\* the <<keyspace, table>> an entity names on a connection whose current
\* table is sel; <<>> when the entity gives no keyspace and none is current
entity_resolve(parts, sel) ==
    IF Len(parts) = 2 THEN parts
    ELSE IF sel = <<>> THEN <<>>
    ELSE <<sel[1], parts[1]>>

\* parser::parse_table_args on the model argument, which the model keeps as
\* the byte of its model code: -1 when it names no model
model_code(model_name) ==
    IF Len(model_name) = 1 /\ model_name[1] \in 0..7 THEN model_name[1] ELSE -1

\* create_table after its arguments are read
create_table_run(kss, tbls, sel, parts, model, volatile, ok) ==
    IF entity_check(parts) # OKAY THEN DdlOut(entity_check(parts), kss, tbls)
    ELSE IF model = -1 THEN DdlOut(BAD_EXPRESSION, kss, tbls)
    ELSE IF volatile = "unknown" THEN DdlOut(UNKNOWN_PROPERTY, kss, tbls)
    ELSE IF ~ok THEN DdlOut(SERVER_ERR, kss, tbls)
    ELSE IF entity_resolve(parts, sel) = <<>> THEN DdlOut(DEFAULT_UNSET, kss, tbls)
    ELSE cs_create_table(kss, tbls, entity_resolve(parts, sel), model, volatile = "volatile")

volatile_arg(act) ==
    IF Len(act) < 3 THEN "none"
    ELSE IF act[3] = VOLATILE THEN "volatile" ELSE "unknown"

create_table(kss, tbls, sel, act, ok) ==
    IF ~(Len(act) > 1 /\ Len(act) < 4) THEN DdlOut(ACTION_ERR, kss, tbls)
    ELSE create_table_run(kss, tbls, sel, entity_from_slice(act[1]), model_code(act[2]),
                          volatile_arg(act), ok)

\* create_keyspace without the checks of the name
create_keyspace_unvalidated(kss, tbls, act, ok) ==
    IF Len(act) # 1 THEN DdlOut(ACTION_ERR, kss, tbls)
    ELSE IF ~is_utf8(act[1]) THEN DdlOut(ENCODING_ERROR, kss, tbls)
    ELSE IF ok THEN cs_create_keyspace(kss, tbls, act[1])
    ELSE DdlOut(SERVER_ERR, kss, tbls)

\* create_keyspace that answers okay whatever the Corestore returned
create_keyspace_swallow(kss, tbls, act, ok) ==
    IF Len(act) # 1 THEN DdlOut(ACTION_ERR, kss, tbls)
    ELSE IF ~is_utf8(act[1]) THEN DdlOut(ENCODING_ERROR, kss, tbls)
    ELSE IF ~VALID_CONTAINER_NAME(act[1]) THEN DdlOut(BAD_EXPRESSION, kss, tbls)
    ELSE IF ~(Len(act[1]) < 64) THEN DdlOut(CONTAINER_NAME_TOO_LONG, kss, tbls)
    ELSE IF ok
    THEN DdlOut(OKAY, cs_create_keyspace(kss, tbls, act[1]).keyspaces,
                cs_create_keyspace(kss, tbls, act[1]).tables)
    ELSE DdlOut(SERVER_ERR, kss, tbls)

\* create_keyspace without the read of the registry's flag
create_keyspace_unfenced(kss, tbls, act, ok) ==
    IF Len(act) # 1 THEN DdlOut(ACTION_ERR, kss, tbls)
    ELSE IF ~is_utf8(act[1]) THEN DdlOut(ENCODING_ERROR, kss, tbls)
    ELSE IF ~VALID_CONTAINER_NAME(act[1]) THEN DdlOut(BAD_EXPRESSION, kss, tbls)
    ELSE IF ~(Len(act[1]) < 64) THEN DdlOut(CONTAINER_NAME_TOO_LONG, kss, tbls)
    ELSE cs_create_keyspace(kss, tbls, act[1])

create_keyspace(kss, tbls, act, ok) ==
    IF Len(act) # 1 THEN DdlOut(ACTION_ERR, kss, tbls)
    ELSE IF ~is_utf8(act[1]) THEN DdlOut(ENCODING_ERROR, kss, tbls)
    ELSE IF ~VALID_CONTAINER_NAME(act[1]) THEN DdlOut(BAD_EXPRESSION, kss, tbls)
    ELSE IF ~(Len(act[1]) < 64) THEN DdlOut(CONTAINER_NAME_TOO_LONG, kss, tbls)
    ELSE IF ok THEN cs_create_keyspace(kss, tbls, act[1])
    ELSE DdlOut(SERVER_ERR, kss, tbls)

\* drop_table after its argument is read
drop_table_run(kss, tbls, sel, parts, ok) ==
    IF entity_check(parts) # OKAY THEN DdlOut(entity_check(parts), kss, tbls)
    ELSE IF ~ok THEN DdlOut(SERVER_ERR, kss, tbls)
    ELSE IF entity_resolve(parts, sel) = <<>> THEN DdlOut(DEFAULT_UNSET, kss, tbls)
    ELSE cs_drop_table(kss, tbls, entity_resolve(parts, sel))

drop_table(kss, tbls, sel, act, ok) ==
    IF Len(act) # 1 THEN DdlOut(ACTION_ERR, kss, tbls)
    ELSE drop_table_run(kss, tbls, sel, entity_from_slice(act[1]), ok)

\* the match on the argument after the keyspace's name: with exactly one
\* argument let through by ensure_length, act.next() is None
force_remove_arg(act) ==
    IF Len(act) < 2 THEN "none"
    ELSE IF act[2] = FORCE_REMOVE THEN "force" ELSE "unknown"

drop_keyspace_run(kss, tbls, ksid, force, ok) ==
    IF ~(Len(ksid) < 64) THEN DdlOut(CONTAINER_NAME_TOO_LONG, kss, tbls)
    ELSE IF force = "unknown" THEN DdlOut(UNKNOWN_ACTION, kss, tbls)
    ELSE IF ~ok THEN DdlOut(SERVER_ERR, kss, tbls)
    ELSE IF force = "force" THEN cs_force_drop_keyspace(kss, tbls, ksid)
    ELSE cs_drop_keyspace(kss, tbls, ksid)

drop_keyspace(kss, tbls, act, ok) ==
    IF Len(act) # 1 THEN DdlOut(ACTION_ERR, kss, tbls)
    ELSE drop_keyspace_run(kss, tbls, act[1], force_remove_arg(act), ok)

\* create: the match on the uppercased first argument
create(kss, tbls, sel, act, ok) ==
    IF ~(Len(act) > 1) THEN DdlOut(ACTION_ERR, kss, tbls)
    ELSE IF next_uppercase(act[1]) = TABLE THEN create_table(kss, tbls, sel, Tail(act), ok)
    ELSE IF next_uppercase(act[1]) = KEYSPACE THEN create_keyspace(kss, tbls, Tail(act), ok)
    ELSE DdlOut(UNKNOWN_DDL_QUERY, kss, tbls)

\* ddl_drop: the match on the uppercased first argument
ddl_drop(kss, tbls, sel, act, ok) ==
    IF ~(Len(act) > 1) THEN DdlOut(ACTION_ERR, kss, tbls)
    ELSE IF next_uppercase(act[1]) = TABLE THEN drop_table(kss, tbls, sel, Tail(act), ok)
    ELSE IF next_uppercase(act[1]) = KEYSPACE THEN drop_keyspace(kss, tbls, Tail(act), ok)
    ELSE DdlOut(UNKNOWN_DDL_QUERY, kss, tbls)

\* inputs of the DDL handlers
EntT == TblT

EntKT == <<107, 58, 116>>

BadName == <<49, 107>>

\* a name of 64 identifier characters
Long64 == [i \in 1..64 |-> 97]

ModelArgs == {<<0>>, <<4>>, <<9>>}

CreateActs ==
    {<<KEYSPACE, k>> : k \in {KsK, KsDefault, BadName, Long64, VX}}
    \cup {<<KEYSPACE>>, <<KEYSPACE, KsK, KsK>>, <<Zap, KsK>>, <<TABLE, EntT>>}
    \cup {<<TABLE, e, mo>> : e \in {EntT, EntKT, BadName}, mo \in ModelArgs}
    \cup {<<TABLE, EntKT, <<4>>, VOLATILE>>, <<TABLE, EntKT, <<4>>, Zap>>}

DropActs ==
    {<<KEYSPACE, k>> : k \in {KsK, KsDefault}}
    \cup {<<TABLE, e>> : e \in {EntT, EntKT, BadName}}
    \cup {<<KEYSPACE, KsK, FORCE_REMOVE>>, <<KEYSPACE, KsK, Zap>>, <<KEYSPACE>>, <<Zap, KsK>>}

\* one CREATE query run by the connection, its response written
Create(act) ==
    /\ call = NoCall
    /\ call' = [action |-> "CREATE", act |-> act,
                resp |-> create(keyspaces, tables, cur, act, okay).resp]
    /\ keyspaces' = create(keyspaces, tables, cur, act, okay).keyspaces
    /\ tables' = create(keyspaces, tables, cur, act, okay).tables
    /\ UNCHANGED <<okay, cur>>
    /\ UNCHANGED <<parseVars, connVars, concVars, permVars, codeVars>>

\* one DROP query run by the connection, its response written
DdlDrop(act) ==
    /\ call = NoCall
    /\ call' = [action |-> "DROP", act |-> act,
                resp |-> ddl_drop(keyspaces, tables, cur, act, okay).resp]
    /\ keyspaces' = ddl_drop(keyspaces, tables, cur, act, okay).keyspaces
    /\ tables' = ddl_drop(keyspaces, tables, cur, act, okay).tables
    /\ UNCHANGED <<okay, cur>>
    /\ UNCHANGED <<parseVars, connVars, concVars, permVars, codeVars>>

(***************************************************************************)
(* The SYS action (admin/sys.rs).                                           *)
(***************************************************************************)
INFO == <<105, 110, 102, 111>>

METRIC == <<109, 101, 116, 114, 105, 99>>

INFO_PROTOCOL == <<112, 114, 111, 116, 111, 99, 111, 108>>

INFO_PROTOVER == <<112, 114, 111, 116, 111, 118, 101, 114>>

INFO_VERSION == <<118, 101, 114, 115, 105, 111, 110>>

METRIC_HEALTH == <<104, 101, 97, 108, 116, 104>>

GOOD == <<103, 111, 111, 100>>

CRITICAL == <<99, 114, 105, 116, 105, 99, 97, 108>>

ERR_UNKNOWN_METRIC == Group("unknown-metric")

to_ascii_lowercase(b) == IF b >= 65 /\ b <= 90 THEN b + 32 ELSE b

next_lowercase(bytes) == [i \in 1..Len(bytes) |-> to_ascii_lowercase(bytes[i])]

\* BoolTable::new(yes, no): the table indexed by a bool
BoolTable(yes, no) == [b \in BOOLEAN |-> IF b THEN yes ELSE no]

HEALTH_TABLE_swapped == BoolTable(CRITICAL, GOOD)

HEALTH_TABLE == BoolTable(GOOD, CRITICAL)

\* write_response of a &str: a string element
Str(bytes) == Mono(TSYMBOL_UNICODE, bytes)

\* the three values of sys_info are constants of the build; the response
\* keeps the name of the property it answers
sys_info(act) ==
    IF next_lowercase(act[2]) \in {INFO_PROTOCOL, INFO_PROTOVER, INFO_VERSION}
    THEN [group |-> "info", tsym |-> 0, val |-> next_lowercase(act[2])]
    ELSE UNKNOWN_PROPERTY

sys_metric(act, ok) ==
    IF next_lowercase(act[2]) = METRIC_HEALTH
    THEN Str(HEALTH_TABLE[ok])
    ELSE ERR_UNKNOWN_METRIC

sys(act, ok) ==
    IF Len(act) # 2 THEN ACTION_ERR
    ELSE IF next_lowercase(act[1]) = INFO THEN sys_info(act)
    ELSE IF next_lowercase(act[1]) = METRIC THEN sys_metric(act, ok)
    ELSE UNKNOWN_ACTION

SysActs ==
    {<<METRIC, METRIC_HEALTH>>, <<next_uppercase(METRIC), next_uppercase(METRIC_HEALTH)>>,
     <<METRIC, Zap>>, <<METRIC>>, <<METRIC, METRIC_HEALTH, VA>>, <<>>,
     <<INFO, INFO_PROTOCOL>>, <<INFO, INFO_PROTOVER>>, <<INFO, INFO_VERSION>>,
     <<INFO, METRIC_HEALTH>>, <<Zap, METRIC_HEALTH>>}

\* one SYS query run by the connection, its response written
Sys(act) ==
    /\ call = NoCall
    /\ call' = [action |-> "SYS", act |-> act, resp |-> sys(act, okay)]
    /\ UNCHANGED <<okay, keyspaces, tables, cur>>
    /\ UNCHANGED <<parseVars, connVars, concVars, permVars, codeVars>>

\* execute_query: the response is flushed; the connection takes its next query
Flushed ==
    /\ call # NoCall
    /\ call' = NoCall
    /\ UNCHANGED <<okay, keyspaces, tables, cur>>
    /\ UNCHANGED <<parseVars, connVars, concVars, permVars, codeVars>>

\* the flusher fails: the registry's flag is cleared. The handlers of this
\* specification run in one step, so a change of the flag between a response
\* and its flush is taken after the flush
FlusherFails ==
    /\ call = NoCall
    /\ okay
    /\ okay' = FALSE
    /\ UNCHANGED <<keyspaces, tables, cur, call>>
    /\ UNCHANGED <<parseVars, connVars, concVars, permVars, codeVars>>

\* the flusher recovers: the registry's flag is set again
FlusherRecovers ==
    /\ call = NoCall
    /\ ~okay
    /\ okay' = TRUE
    /\ UNCHANGED <<keyspaces, tables, cur, call>>
    /\ UNCHANGED <<parseVars, connVars, concVars, permVars, codeVars>>

Next ==
    \/ \E act \in LmodActs : Lmod(act)
    \/ \E act \in CreateActs : Create(act)
    \/ \E act \in DropActs : DdlDrop(act)
    \/ \E act \in SysActs : Sys(act)
    \/ Flushed
    \/ FlusherFails
    \/ FlusherRecovers

Spec == Init /\ [][Next]_vars

(***************************************************************************)
(* KVEListMap::add_list (kvengine/listmap.rs).  Nothing in these sources    *)
(* calls it; it is run here on the connection's list table, next to the     *)
(* PUSH that fills the lists it finds.                                      *)
(***************************************************************************)
\* Coremap::true_if_insert: the entry is inserted if the key is vacant, and
\* an entry already there is left alone
true_if_insert(lists, key, val) ==
    IF key \in DOMAIN lists
    THEN [ret |-> FALSE, lists |-> lists]
    ELSE [ret |-> TRUE, lists |-> [n \in DOMAIN lists \cup {key} |->
                                      IF n = key THEN val ELSE lists[n]]]

\* add_list: what it returns and the lists it leaves
add_list(t, listname) ==
    IF encode_key(t, listname)
    THEN [ret |-> "None", lists |-> t.lists]
    ELSE [ret |-> IF true_if_insert(t.lists, listname, <<>>).ret
                  THEN "Some(true)" ELSE "Some(false)",
          lists |-> true_if_insert(t.lists, listname, <<>>).lists]

\* one call of add_list on the list table; the call record keeps the value
\* returned
AddList(listname) ==
    /\ call = NoCall
    /\ get_table_with_list(tables, cur) = OKAY
    /\ call' = [action |-> "add_list", act |-> <<listname>>,
                resp |-> Group(add_list(tables[cur], listname).ret)]
    /\ tables' = [tables EXCEPT ![cur].lists = add_list(tables[cur], listname).lists]
    /\ UNCHANGED <<okay, keyspaces, cur>>
    /\ UNCHANGED <<parseVars, connVars, concVars, permVars, codeVars>>

\* the PUSH of one value onto a list
PushActs == {<<n, PUSH, v>> : n \in Names, v \in {VA, VB}}

NextAddList ==
    \/ \E listname \in Names : AddList(listname)
    \/ \E act \in PushActs : Lmod(act)
    \/ Flushed

SpecAddList == Init /\ [][NextAddList]_vars

(***************************************************************************)
(* The response codes and their conversions (libtdb/terrapipe.rs).  An      *)
(* Option is the empty sequence for None and <<x>> for Some(x); a char is   *)
(* its code point.                                                          *)
(***************************************************************************)
U8_MAX == 255

Some(x) == <<x>>

\* the details an OtherError may carry
Details == {<<>>, Some(""), Some("x")}

Code(name) == [code |-> name, extra |-> <<>>]

OtherError(extra) == [code |-> "OtherError", extra |-> extra]

RespCodes ==
    {Code(n) : n \in {"Okay", "NotFound", "OverwriteError", "ActionError",
                      "PacketError", "ServerError"}}
    \cup {OtherError(e) : e \in Details}

\* impl From<RespCodes> for u8
u8_from(rc) ==
    CASE rc.code = "Okay" -> 0
      [] rc.code = "NotFound" -> 1
      [] rc.code = "OverwriteError" -> 2
      [] rc.code = "ActionError" -> 3
      [] rc.code = "PacketError" -> 4
      [] rc.code = "ServerError" -> 5
      [] rc.code = "OtherError" -> 6

\* impl From<RespCodes> for char
char_from(rc) ==
    CASE rc.code = "Okay" -> CH_0
      [] rc.code = "NotFound" -> CH_0 + 1
      [] rc.code = "OverwriteError" -> CH_0 + 2
      [] rc.code = "ActionError" -> CH_0 + 3
      [] rc.code = "PacketError" -> CH_0 + 4
      [] rc.code = "ServerError" -> CH_0 + 5
      [] rc.code = "OtherError" -> CH_0 + 6

\* a from_u8 that takes 7 for a code as well
from_u8_lenient(val, extra) ==
    CASE val = 0 -> Some(Code("Okay"))
      [] val = 1 -> Some(Code("NotFound"))
      [] val = 2 -> Some(Code("OverwriteError"))
      [] val = 3 -> Some(Code("ActionError"))
      [] val = 4 -> Some(Code("PacketError"))
      [] val = 5 -> Some(Code("ServerError"))
      [] val \in {6, 7} -> Some(OtherError(extra))
      [] OTHER -> <<>>

\* RespCodes::from_u8
from_u8(val, extra) ==
    CASE val = 0 -> Some(Code("Okay"))
      [] val = 1 -> Some(Code("NotFound"))
      [] val = 2 -> Some(Code("OverwriteError"))
      [] val = 3 -> Some(Code("ActionError"))
      [] val = 4 -> Some(Code("PacketError"))
      [] val = 5 -> Some(Code("ServerError"))
      [] val = 6 -> Some(OtherError(extra))
      [] OTHER -> <<>>

\* u8::checked_sub
checked_sub(a, b) == IF a >= b THEN Some(a - b) ELSE <<>>

\* RespCodes::from_utf8
from_utf8(val) ==
    IF checked_sub(val, 48) = <<>> THEN <<>>
    ELSE IF checked_sub(val, 48)[1] > 6 THEN <<>>
    ELSE from_u8(checked_sub(val, 48)[1], <<>>)

InitCodes ==
    /\ ParseIdle
    /\ ConnIdle
    /\ StoreIdle
    /\ ConcIdle
    /\ PermIdle
    /\ rcode \in RespCodes
    /\ rbyte \in 0..U8_MAX
    /\ rextra \in Details
    /\ rconv = NoConv

\* the conversions, applied to the code and to the byte
Convert ==
    /\ ~rconv.made
    /\ rconv' = [u8 |-> u8_from(rcode),
                 ch |-> char_from(rcode),
                 back |-> from_u8(u8_from(rcode), rextra),
                 backch |-> from_utf8(char_from(rcode)),
                 of_u8 |-> from_u8(rbyte, rextra),
                 of_utf8 |-> from_utf8(rbyte),
                 made |-> TRUE]
    /\ UNCHANGED <<rcode, rbyte, rextra>>
    /\ UNCHANGED <<parseVars, connVars, storeVars, concVars, permVars>>

NextCodes == Convert

SpecCodes == InitCodes /\ [][NextCodes]_vars

(***************************************************************************)
(* The LMOD handlers of two connections, step by step, on one list: each    *)
(* reads the registry's flag, takes the list's write lock, mutates and      *)
(* lets go; the flusher changes the flag and KVEListMap::len reads the      *)
(* length under the read lock.                                              *)
(***************************************************************************)
\* calls a handler begins
MaxCalls == 2

\* longest list the handlers build
MaxConcLen == 3

\* RwLock::write that takes the lock whatever its state
write_unchecked(l) == TRUE

\* RwLock::write returns once the lock has no writer and no readers
write_free(l) == l.writer = 0 /\ l.readers = {}

\* RwLock::read returns once the lock has no writer
read_free(l) == l.writer = 0

ConcActs ==
    {<<NameL, PUSH, VA, VB>>, <<NameL, PUSH, VB>>, <<NameL, CLEAR>>,
     <<NameL, REMOVE, Decimal(0)>>, <<NameL, INSERT, Decimal(0), VB>>,
     <<NameL, POP>>, <<NameL, POP, Decimal(1)>>}

\* how many elements a call can add to the list
Growth(act) ==
    IF act = <<>> THEN 0
    ELSE IF act[2] = PUSH THEN Len(act) - 2
    ELSE IF act[2] = INSERT THEN 1 ELSE 0

ConcList == tables[DefaultTable].lists[NameL]

InitConc ==
    /\ ParseIdle
    /\ ConnIdle
    /\ okay = TRUE
    /\ keyspaces = {KsDefault}
    /\ tables = DefaultTable :> Table(7, FALSE, NameL :> <<VA>>)
    /\ cur = DefaultTable
    /\ call = NoCall
    /\ ConcIdle
    /\ PermIdle
    /\ CodeIdle

\* lmod up to the read of the registry's flag: the arguments are read, the
\* list is found, the values pass the encoder
HBegin(h, act) ==
    /\ hpc[h] = "idle"
    /\ hcalls[h] < MaxCalls
    /\ Len(ConcList) + Growth(act) + Growth(hop[3 - h]) <= MaxConcLen
    /\ hpc' = [hpc EXCEPT ![h] = "fence"]
    /\ hop' = [hop EXCEPT ![h] = act]
    /\ hcalls' = [hcalls EXCEPT ![h] = @ + 1]
    /\ hresp' = [hresp EXCEPT ![h] = NoResp]
    /\ UNCHANGED <<rwlock, hdone, hbase, rpc, seen>>
    /\ UNCHANGED <<parseVars, connVars, storeVars, permVars, codeVars>>

\* registry::state_okay()
HStateOkay(h) ==
    /\ hpc[h] = "fence"
    /\ IF okay
       THEN hpc' = [hpc EXCEPT ![h] = "lock"] /\ UNCHANGED <<hresp, hop>>
       ELSE /\ hpc' = [hpc EXCEPT ![h] = "idle"]
            /\ hresp' = [hresp EXCEPT ![h] = SERVER_ERR]
            /\ hop' = [hop EXCEPT ![h] = <<>>]
    /\ UNCHANGED <<rwlock, hdone, hbase, hcalls, rpc, seen>>
    /\ UNCHANGED <<parseVars, connVars, storeVars, permVars, codeVars>>

\* list.write()
HWrite(h) ==
    /\ hpc[h] = "lock"
    /\ write_free(rwlock)
    /\ rwlock' = [rwlock EXCEPT !.writer = h]
    /\ hbase' = [hbase EXCEPT ![h] = ConcList]
    /\ hdone' = [hdone EXCEPT ![h] = 0]
    /\ hpc' = [hpc EXCEPT ![h] = "locked"]
    /\ UNCHANGED <<hop, hresp, hcalls, rpc, seen>>
    /\ UNCHANGED <<parseVars, connVars, storeVars, permVars, codeVars>>

\* extend(act.map(Data::copy_from_slice)): one value is pushed
HExtend(h) ==
    /\ hpc[h] = "locked"
    /\ hop[h][2] = PUSH
    /\ tables' = [tables EXCEPT ![DefaultTable].lists[NameL] =
                      Append(@, hop[h][hdone[h] + 3])]
    /\ hdone' = [hdone EXCEPT ![h] = @ + 1]
    /\ IF hdone[h] + 3 = Len(hop[h])
       THEN /\ hpc' = [hpc EXCEPT ![h] = "unlock"]
            /\ hresp' = [hresp EXCEPT ![h] = OKAY]
       ELSE UNCHANGED <<hpc, hresp>>
    /\ UNCHANGED <<rwlock, hop, hbase, hcalls, rpc, seen>>
    /\ UNCHANGED <<okay, keyspaces, cur, call>>
    /\ UNCHANGED <<parseVars, connVars, permVars, codeVars>>

\* the test the handler makes under the lock before it touches the vector:
\* idx < wlock.len() for REMOVE, INSERT and POP with an index; clear() and
\* pop() need none
idx_in_range(act, list) ==
    IF act[2] \in {REMOVE, INSERT} \/ (act[2] = POP /\ Len(act) = 3)
    THEN parse_usize(act[3]) < Len(list)
    ELSE TRUE

\* a handler that lets go of the lock between its test and the mutation
HCheckUnlocked(h) ==
    /\ hpc[h] = "locked"
    /\ hop[h][2] # PUSH
    /\ rwlock' = [rwlock EXCEPT !.writer = 0]
    /\ IF idx_in_range(hop[h], ConcList)
       THEN hpc' = [hpc EXCEPT ![h] = "mutate"] /\ UNCHANGED hresp
       ELSE /\ hpc' = [hpc EXCEPT ![h] = "unlock"]
            /\ hresp' = [hresp EXCEPT ![h] = lmod_response(tables, cur, hop[h], TRUE)]
    /\ UNCHANGED <<hop, hdone, hbase, hcalls, rpc, seen>>
    /\ UNCHANGED <<parseVars, connVars, storeVars, permVars, codeVars>>

\* clear, remove, insert and pop under the write lock: the bounds test
HCheck(h) ==
    /\ hpc[h] = "locked"
    /\ hop[h][2] # PUSH
    /\ IF idx_in_range(hop[h], ConcList)
       THEN hpc' = [hpc EXCEPT ![h] = "mutate"] /\ UNCHANGED hresp
       ELSE /\ hpc' = [hpc EXCEPT ![h] = "unlock"]
            /\ hresp' = [hresp EXCEPT ![h] = lmod_response(tables, cur, hop[h], TRUE)]
    /\ UNCHANGED <<rwlock, hop, hdone, hbase, hcalls, rpc, seen>>
    /\ UNCHANGED <<parseVars, connVars, storeVars, permVars, codeVars>>

\* clear, remove, insert and pop under the write lock: the vector is changed.
\* Vec::remove and Vec::insert panic on an index that is out of range; the
\* unwinding drops the guard.
HMutate(h) ==
    /\ hpc[h] = "mutate"
    /\ IF idx_in_range(hop[h], ConcList)
       THEN /\ tables' = lmod_tables(tables, cur, hop[h], TRUE)
            /\ hresp' = [hresp EXCEPT ![h] = lmod_response(tables, cur, hop[h], TRUE)]
            /\ hpc' = [hpc EXCEPT ![h] = "unlock"]
            /\ UNCHANGED rwlock
       ELSE /\ hpc' = [hpc EXCEPT ![h] = "panic"]
            /\ rwlock' = [rwlock EXCEPT !.writer = IF @ = h THEN 0 ELSE @]
            /\ UNCHANGED <<tables, hresp>>
    /\ UNCHANGED <<hop, hdone, hbase, hcalls, rpc, seen>>
    /\ UNCHANGED <<okay, keyspaces, cur, call>>
    /\ UNCHANGED <<parseVars, connVars, permVars, codeVars>>

\* a handler that keeps the write guard while it writes the response
HUnlockLate(h) ==
    /\ hpc[h] = "unlock"
    /\ hpc' = [hpc EXCEPT ![h] = "respond"]
    /\ UNCHANGED <<rwlock, hop, hdone, hbase, hresp, hcalls, rpc, seen>>
    /\ UNCHANGED <<parseVars, connVars, storeVars, permVars, codeVars>>

\* the write guard is dropped: the end of the statement or closure that took it
HUnlock(h) ==
    /\ hpc[h] = "unlock"
    /\ rwlock' = [rwlock EXCEPT !.writer = IF @ = h THEN 0 ELSE @]
    /\ hpc' = [hpc EXCEPT ![h] = "respond"]
    /\ UNCHANGED <<hop, hdone, hbase, hresp, hcalls, rpc, seen>>
    /\ UNCHANGED <<parseVars, connVars, storeVars, permVars, codeVars>>

\* conwrite!: the response is written to the connection, the handler's
\* suspension point
HRespond(h) ==
    /\ hpc[h] = "respond"
    /\ hpc' = [hpc EXCEPT ![h] = "idle"]
    /\ hop' = [hop EXCEPT ![h] = <<>>]
    /\ hdone' = [hdone EXCEPT ![h] = 0]
    /\ hbase' = [hbase EXCEPT ![h] = <<>>]
    /\ UNCHANGED <<rwlock, hresp, hcalls, rpc, seen>>
    /\ UNCHANGED <<parseVars, connVars, storeVars, permVars, codeVars>>

\* KVEListMap::len: v.read()
LenRead ==
    /\ rpc = "idle"
    /\ read_free(rwlock)
    /\ rwlock' = [rwlock EXCEPT !.readers = {"len"}]
    /\ rpc' = "reading"
    /\ UNCHANGED <<hpc, hop, hdone, hbase, hresp, hcalls, seen>>
    /\ UNCHANGED <<parseVars, connVars, storeVars, permVars, codeVars>>

\* KVEListMap::len: .len()
LenLen ==
    /\ rpc = "reading"
    /\ seen' = Len(ConcList)
    /\ rpc' = "release"
    /\ UNCHANGED <<rwlock, hpc, hop, hdone, hbase, hresp, hcalls>>
    /\ UNCHANGED <<parseVars, connVars, storeVars, permVars, codeVars>>

\* KVEListMap::len: the read guard is dropped
LenRelease ==
    /\ rpc = "release"
    /\ rwlock' = [rwlock EXCEPT !.readers = {}]
    /\ rpc' = "idle"
    /\ UNCHANGED <<hpc, hop, hdone, hbase, hresp, hcalls, seen>>
    /\ UNCHANGED <<parseVars, connVars, storeVars, permVars, codeVars>>

NextConc ==
    \/ \E h \in Handlers, act \in ConcActs : HBegin(h, act)
    \/ \E h \in Handlers : HStateOkay(h)
    \/ \E h \in Handlers : HWrite(h)
    \/ \E h \in Handlers : HExtend(h)
    \/ \E h \in Handlers : HCheck(h)
    \/ \E h \in Handlers : HMutate(h)
    \/ \E h \in Handlers : HUnlock(h)
    \/ \E h \in Handlers : HRespond(h)
    \/ LenRead
    \/ LenLen
    \/ LenRelease
    \/ FlusherFails
    \/ FlusherRecovers

SpecConc == InitConc /\ [][NextConc]_vars

(***************************************************************************)
(* The connection limit.  The accept loop takes a permit of the semaphore,  *)
(* forgets it, and makes a ConnectionHandler that is handed the semaphore;  *)
(* the handler's Drop gives one permit back.                                *)
(***************************************************************************)
ExitPaths == {"Ok", "IoError", "Terminated", "Panic"}

InitAccept ==
    /\ ParseIdle
    /\ ConnIdle
    /\ StoreIdle
    /\ ConcIdle
    /\ CodeIdle
    /\ permits = MaxPermits
    /\ handler = [i \in Slots |-> "none"]

\* the accept loop: climit.acquire() returns once a permit is available; the
\* loop serves one connection at a time
AcquirePermit(i) ==
    /\ handler[i] = "none"
    /\ \A j \in Slots : handler[j] # "accepted"
    /\ permits > 0
    /\ permits' = permits - 1
    /\ handler' = [handler EXCEPT ![i] = "accepted"]
    /\ UNCHANGED <<parseVars, connVars, storeVars, concVars, codeVars>>

\* ConnectionHandler::new with the semaphore, and the task spawned on it
NewHandler(i) ==
    /\ handler[i] = "accepted"
    /\ handler' = [handler EXCEPT ![i] = "live"]
    /\ UNCHANGED permits
    /\ UNCHANGED <<parseVars, connVars, storeVars, concVars, codeVars>>

\* run ends: Ok(()), Err(e), Ok(()) on the terminator's signal, or a panic
\* that unwinds the task
RunEnds(i, how) ==
    /\ handler[i] = "live"
    /\ handler' = [handler EXCEPT ![i] = how]
    /\ UNCHANGED permits
    /\ UNCHANGED <<parseVars, connVars, storeVars, concVars, codeVars>>

\* a Drop that gives nothing back after a panic
drop_permits_unless_panic(how) == IF how = "Panic" THEN 0 ELSE 1

\* Drop for ConnectionHandler: add_permits(1), whatever ended the handler
drop_permits(how) == 1

\* the handler is dropped
DropHandler(i) ==
    /\ handler[i] \in ExitPaths
    /\ permits' = permits + drop_permits(handler[i])
    /\ handler' = [handler EXCEPT ![i] = "none"]
    /\ UNCHANGED <<parseVars, connVars, storeVars, concVars, codeVars>>

NextAccept ==
    \/ \E i \in Slots : AcquirePermit(i)
    \/ \E i \in Slots : NewHandler(i)
    \/ \E i \in Slots, how \in ExitPaths : RunEnds(i, how)
    \/ \E i \in Slots : DropHandler(i)

SpecAccept == InitAccept /\ [][NextAccept]_vars

(***************************************************************************)
(* Claims about the connection limit, checked under SpecAccept.             *)
(***************************************************************************)
\* the handlers that exist: made and not yet dropped
LiveHandlers == {i \in Slots : handler[i] \in ExitPaths \cup {"live"}}

\* the connections the accept loop holds a permit for without a handler yet
Accepted == {i \in Slots : handler[i] = "accepted"}

\* C24 as stated: at all times available permits + live handlers = limit
C24_PermitsPlusLive ==
    /\ Cardinality(LiveHandlers) <= MaxPermits
    /\ permits + Cardinality(LiveHandlers) = MaxPermits

\* C24: at all times the live handlers are at most the limit, and the
\* available permits, the live handlers and the permit the accept loop has
\* taken for a handler it has not made yet add up to the limit: one permit is
\* taken before a handler is made and exactly one comes back when it is
\* dropped, however run ended (clean return, I/O error, termination, panic).
C24_PermitsAccounted ==
    /\ permits \in 0..MaxPermits
    /\ Cardinality(LiveHandlers) <= MaxPermits
    /\ Cardinality(Accepted) <= 1
    /\ permits + Cardinality(LiveHandlers) + Cardinality(Accepted) = MaxPermits

\* the limit is reached, one handler having panicked and not yet dropped,
\* after an earlier handler was dropped and its permit taken again
C24_Witness ==
    /\ permits = 0
    /\ handler[1] = "none"
    /\ handler[2] = "Panic"
    /\ handler[3] = "live"
    /\ handler[4] = "none"

(***************************************************************************)
(* Claims about the connection handler, checked under SpecConn.             *)
(***************************************************************************)

\* C1: once a packet-error or wrongtype-error response has been written for
\* a parser error, the connection is closed: the handler never again reads,
\* parses or dispatches on it.
C1_ClosedAfterParserError == perr => cpc \notin {"read", "parse", "exec"}

\* C2: a complete frame in the buffer is parsed and answered without any
\* further byte from the peer: the handler never waits on the socket while
\* its buffer starts with a complete frame.
C2_NoWaitOnCompleteFrame == ~(cpc = "read" /\ parse(cbuf).ok)

\* C19: when a handler returns an action error, run writes the error after
\* the response header and flushes, advances the read buffer past the
\* frame and goes back to the head of its loop with the connection open.
C19_ActionErrorKeepsConnection ==
    [][/\ (cpc = "actionerr" /\ cpc' # cpc) =>
              \/ cres' = "IoError"
              \/ /\ cout[Len(cout)] = HeaderOf(executor, cquery)
                 /\ cout' = Append(cout, Written("action-error", 0))
                 /\ cflushed' = Len(cout')
                 /\ cpc' = "advance"
                 /\ cres' = "running"
       /\ (cpc = "advance" /\ cpc' # cpc) =>
              /\ cquery = parse(cbuf)
              /\ cquery.ok
              /\ cbuf' = Drop(cbuf, cquery.consumed)
              /\ cpc' = "loop"
              /\ cres' = "running"]_vars

C19_Witness ==
    /\ Len(cout) = 4
    /\ cout[2] = Written("action-error", 0)
    /\ cout[3] = SIMPLE_QUERY_HEADER
    /\ cout[4] = Written("response", 1)
    /\ cflushed = 4
    /\ cpc = "loop"
    /\ cres = "running"
    /\ cbuf = <<>>

\* the step in which read_buf returns 0 and run returns
EofStep == cpc = "read" /\ cpc' = "done" /\ ~signal /\ cres' # "IoError"

\* C20 as stated: on end of stream run returns Ok if the read buffer is
\* empty and a connection-reset error if it is not, and no further query
\* is dispatched.
C20_EofOkOrReset ==
    [][/\ EofStep => cres' = (IF cbuf = <<>> THEN "Ok" ELSE "ConnectionReset")
       /\ cpc = "done" => (cpc' = "done" /\ cout' = cout)]_vars

\* C20: on end of stream read_query gives Disconnected for an empty read
\* buffer and a connection-reset error for a non-empty one; run returns Ok
\* for the first and the error for the second, except in a build for
\* Windows, where it returns Ok for both; no further query is dispatched.
C20_EofOkOrResetByBuild ==
    [][/\ EofStep =>
              cres' = (IF cbuf = <<>> \/ windows THEN "Ok" ELSE "ConnectionReset")
       /\ cpc = "done" => (cpc' = "done" /\ cout' = cout)]_vars

C20_Witness ==
    /\ cpc = "done"
    /\ cres = "ConnectionReset"
    /\ ~windows
    /\ cbuf = ItemCut
    /\ peer = "closed"
    /\ Len(cout) = 2

\* the step in which the executor of an unauthenticated connection has run
UnauthExecuted == cpc = "exec" /\ executor = "unauth" /\ cpc' # "exec" /\ cres' # "IoError"

\* C21: while the executor is execute_unauth a pipelined query is never
\* dispatched: what is written for it is exactly the simple header `*` and
\* bad-credentials, nothing of the store changes, the executor stays and the
\* connection goes on to the flush; a simple query gets the header `*` first
\* and after it only what the authentication-only dispatcher
\* (execute_simple_noauth) writes, or its action error.
C21_UnauthRejectsPipeline ==
    [][UnauthExecuted =>
         /\ cquery.kind = "Pipelined" =>
              /\ cout' = cout \o <<Written("*", 0), AUTH_CODE_BAD_CREDENTIALS>>
              /\ cpc' = "flush"
              /\ cres' = "running"
              /\ executor' = "unauth"
              /\ UNCHANGED storeVars
         /\ cquery.kind = "Simple" =>
              /\ Len(cout') > Len(cout)
              /\ SubSeq(cout', 1, Len(cout)) = cout
              /\ cout'[Len(cout) + 1] = Written("*", 0)
              /\ \A j \in Len(cout) + 2 .. Len(cout') :
                    cout'[j] = Written("response-noauth", 1)
              /\ cpc' \in {"flush", "actionerr"}]_vars

\* a pipeline sent unauthenticated was answered and the connection reads on
C21_Witness ==
    /\ executor = "unauth"
    /\ cquery.ok
    /\ cquery.kind = "Pipelined"
    /\ cout = <<Written("*", 0), AUTH_CODE_BAD_CREDENTIALS>>
    /\ cflushed = 2
    /\ cdone = 1
    /\ cpc = "read"
    /\ cres = "running"

\* what the writer holds of a pipeline of n queries whose header stands at h:
\* the header `$n\n` and after it the responses 1, 2, ... in that order
PipelineWritten(out, h, n) ==
    /\ h > 0
    /\ out[h] = Written("$", n)
    /\ Len(out) - h <= n
    /\ \A j \in h + 1 .. Len(out) : out[j] = Written("response", j - h)

\* an authenticated pipeline is being answered or has just been answered
InPipeline ==
    /\ cquery.ok
    /\ cquery.kind = "Pipelined"
    /\ executor = "auth"
    /\ cpc \in {"pipe", "flush", "advance"}

\* C22: under the auth executor a pipeline of N queries gets exactly the
\* header `$N\n` and then N responses in the order the queries were sent: at
\* every moment the writer holds the header and the responses 1..k, k <= N,
\* each step of the pipeline writes the one response k+1 after the k before
\* it, and when the executor is through k = N; no query is skipped or
\* answered twice.
C22_PipelineInOrder ==
    /\ [](InPipeline =>
            /\ PipelineWritten(cout, LastHeader(cout, Len(cout)), Len(cquery.data))
            /\ cpc = "pipe" => StagesDone(cout) < Len(cquery.data)
            /\ cpc # "pipe" => StagesDone(cout) = Len(cquery.data))
    /\ [][cpc = "pipe" /\ cout' # cout =>
            cout' = Append(cout, Written("response", StagesDone(cout) + 1))]_vars

\* a pipeline of two queries answered in full and flushed
C22_Witness ==
    /\ InPipeline
    /\ cpc = "advance"
    /\ cout = <<Written("$", 2), Written("response", 1), Written("response", 2)>>
    /\ cflushed = 3

\* no read or write of the connection fails and the peer does not hang up in
\* the middle of a frame
NoIoFailure == cres \notin {"IoError", "ConnectionReset"}

RECURSIVE Headers(_, _)
Headers(out, i) ==
    IF i = 0 THEN 0
    ELSE Headers(out, i - 1) + (IF out[i].what \in {"*", "$"} THEN 1 ELSE 0)

\* a frame has been parsed and its response is not yet both complete and
\* passed by the buffer
Dispatching == cpc \in {"exec", "pipe", "flush", "actionerr", "advance"}

\* C25: frames are handled one at a time in the order they arrive: when the
\* handler reads, parses or dispatches, every response written so far is
\* flushed and there is exactly one response for each frame handled; while a
\* frame is being answered only its own response, the last one, can be
\* unflushed, and it is the one response more than the frames handled.
C25_OneFrameAtATime ==
    /\ cpc \in {"loop", "read", "parse", "exec"} =>
          /\ cflushed = Len(cout)
          /\ Headers(cout, Len(cout)) = cdone
    /\ cpc \in {"pipe", "flush", "actionerr", "advance"} =>
          /\ Headers(cout, Len(cout)) = cdone + 1
          /\ cflushed >= LastHeader(cout, Len(cout)) - 1
          /\ cout[LastHeader(cout, Len(cout))].what = "$" => cquery.kind = "Pipelined"
    /\ cpc = "advance" => cflushed = Len(cout)

\* two frames were answered, one response each, and the handler reads on
C25_Witness ==
    /\ cdone = 2
    /\ Headers(cout, Len(cout)) = 2
    /\ Len(cout) = 4
    /\ cout[1].what = "$"
    /\ cout[3].what = "*"
    /\ cflushed = 4
    /\ cpc = "read"

\* C26: from the parse of a frame until execute_query for it is through, the
\* read buffer is left as it is (nothing appended, advanced or cleared); then
\* it is advanced once, by exactly the count the parser reported for the
\* buffer as it still stands, and the handler is back at the head of its loop.
\* The buffer changes nowhere but in a read and in that advance.
C26_BufferHeldThenAdvanced ==
    [][/\ cpc \in {"exec", "pipe", "flush", "actionerr"} =>
            /\ cbuf' = cbuf
            /\ cdone' = cdone
            /\ cpc' \in {"exec", "pipe", "flush", "actionerr", "advance", "done"}
       /\ cpc = "advance" /\ cpc' # "advance" =>
            /\ cquery = parse(cbuf)
            /\ cquery.ok
            /\ cquery.consumed \in 1..Len(cbuf)
            /\ cbuf' = SubSeq(cbuf, cquery.consumed + 1, Len(cbuf))
            /\ cdone' = cdone + 1
            /\ cpc' = "loop"
       /\ cbuf' # cbuf => cpc \in {"read", "advance"}
       /\ cdone' # cdone => cpc = "advance"]_vars

\* the buffer was advanced past an answered frame and holds the bytes of the
\* next one
C26_Witness ==
    /\ cdone = 1
    /\ cquery.ok
    /\ cpc = "loop"
    /\ cbuf = ItemPipeline
    /\ cflushed = Len(cout)

\* the step that flushes the response of a dispatched frame: flush_stream in
\* execute_query, or the flush of close_conn_with_error after an action error
FlushOfFrame == cpc \in {"flush", "actionerr"} /\ cpc' = "advance"

\* the step that advances the buffer past a dispatched frame
AdvanceOfFrame == cdone' = cdone + 1

\* C34 as stated: for each dispatched frame the read buffer is advanced first
\* and the writer is flushed afterwards: when the buffer is advanced the
\* frame's response still waits in the writer, and when the response is
\* flushed the buffer has been advanced past the frame.
C34_AdvanceThenFlush ==
    [][/\ AdvanceOfFrame => cflushed < Len(cout)
       /\ FlushOfFrame => Headers(cout', Len(cout')) = cdone]_vars

\* C34: for each dispatched frame the writer is flushed first and the read
\* buffer is advanced afterwards: the flush leaves the buffer as it is, still
\* starting with the frame, which the handler has not yet counted as passed;
\* the advance finds everything written, the frame's whole response included,
\* flushed, and writes and flushes nothing itself.
C34_FlushThenAdvance ==
    [][/\ FlushOfFrame =>
            /\ cflushed' = Len(cout')
            /\ cbuf' = cbuf
            /\ cquery = parse(cbuf)
            /\ cdone' = cdone
            /\ Headers(cout', Len(cout')) = cdone + 1
       /\ AdvanceOfFrame =>
            /\ cpc = "advance"
            /\ cflushed = Len(cout)
            /\ Headers(cout, Len(cout)) = cdone + 1
            /\ UNCHANGED <<cout, cflushed>>]_vars

\* a frame's response is flushed and the buffer still holds the frame, about
\* to be advanced
C34_Witness ==
    /\ cpc = "advance"
    /\ cdone = 0
    /\ cflushed = Len(cout)
    /\ Len(cout) = 2
    /\ cquery.ok
    /\ cquery = parse(cbuf)
    /\ Len(cbuf) >= cquery.consumed

\* a step of a dispatch that writes: the executor writes a header, or
\* execute_pipeline a response
DispatchWrites == cpc \in {"exec", "pipe"} /\ cout' # cout

\* C35: the executor is always execute_unauth or execute_auth; it changes
\* only in a step of a dispatch that runs an action (never in a read, a
\* parse, a flush, an advance, nor under execute_unauth given a pipeline);
\* and a swap tells only on the frames dispatched after the current one:
\* header and routing of a frame are those of the executor in place when the
\* frame was dispatched, also for the queries of a pipeline that follow a
\* swap.
C35_SwapTellsOnLaterFrames ==
    /\ [](executor \in {"unauth", "auth"})
    /\ [][/\ executor' # executor =>
               /\ cpc \in {"exec", "pipe"}
               /\ ~(executor = "unauth" /\ cquery.kind = "Pipelined" /\ cpc = "exec")
          /\ (cpc = "exec" /\ cout' # cout) =>
               /\ cout'[Len(cout) + 1] = HeaderOf(executor, cquery)
               /\ \A j \in Len(cout) + 2 .. Len(cout') :
                     cout'[j] \in {AUTH_CODE_BAD_CREDENTIALS,
                                   Written(Dispatcher(executor), j - Len(cout) - 1)}
          /\ (cpc = "pipe" /\ cout' # cout) =>
               /\ cout[LastHeader(cout, Len(cout))] = PipelineHeader(Len(cquery.data))
               /\ cout' = Append(cout, Written(Dispatcher("auth"), NextStage(cout)))]_vars

\* the first query of a pipeline swapped the executor to execute_unauth and
\* the second was answered by the authenticated route all the same
C35_Witness ==
    /\ executor = "unauth"
    /\ cpc = "flush"
    /\ cout = <<PipelineHeader(2), Written("response", 1), Written("response", 2)>>

\* the value of a line of digits
RECURSIVE DigitsValue(_, _)
DigitsValue(line, i) ==
    IF i = 0 THEN 0 ELSE DigitsValue(line, i - 1) * 10 + (line[i] - CH_0)

\* a line that is no usize: a byte that is no digit, or digits worth more
\* than usize::MAX
NoUsize(line) ==
    \/ \E i \in 1..Len(line) : line[i] < CH_0 \/ line[i] > CH_9
    \/ DigitsValue(line, Len(line)) > USIZE_MAX

\* b starts with a non-empty line ended by LF that is no usize
BadLengthLine(b) ==
    \E k \in 2..Len(b) :
        /\ b[k] = LF
        /\ \A j \in 1..k - 1 : b[j] # LF
        /\ NoUsize(SubSeq(b, 1, k - 1))

\* the count line of the buffer, or the size line after a count of 1, is no
\* usize
BadLengthFrame(buf) ==
    /\ Len(buf) >= 1
    /\ buf[1] \in {STAR, DOLLAR}
    /\ \/ BadLengthLine(SubSeq(buf, 2, Len(buf)))
       \/ /\ Len(buf) >= 3
          /\ buf[2] = CH_1
          /\ buf[3] = LF
          /\ BadLengthLine(SubSeq(buf, 4, Len(buf)))

\* C28: a count or size line ended by LF that holds a byte other than a digit
\* (sign, space, letter), or digits whose value overflows the word in the
\* multiplication by 10 or in the addition, makes parse return
\* DatatypeParseFailure, never a query with a wrapped length, and the handler
\* answers with wrongtype-error, flushed.
C28_BadLengthIsWrongtype ==
    [][/\ cpc = "parse" /\ cpc' # "parse" /\ BadLengthFrame(cbuf) =>
            /\ cquery' = ParseErr("DatatypeParseFailure")
            /\ cpc' = "wrongtype"
       /\ cpc = "wrongtype" /\ cpc' # "wrongtype" /\ cres' # "IoError" =>
            /\ cout' = Append(cout, WRONGTYPE_ERR)
            /\ cflushed' = Len(cout) + 1]_vars

\* a count one above usize::MAX was answered with wrongtype-error
C28_Witness ==
    /\ cbuf = ItemAddOverflow
    /\ cquery = ParseErr("DatatypeParseFailure")
    /\ cout = <<WRONGTYPE_ERR>>
    /\ cflushed = 1
    /\ cpc = "loop"

(***************************************************************************)
(* Claims about concurrent handlers, checked under SpecConc.                *)
(***************************************************************************)

\* C3: under any interleaving of the handlers with the flusher, every step
\* that changes a list is taken in a state where the okay flag is set.
C3_ListChangesOnlyWhenOkay == [][tables' # tables => okay]_vars

\* a handler's extend has pushed some but not all of its batch
MidBatch(pc, op, done) ==
    pc = "locked" /\ op[2] = PUSH /\ done > 0 /\ done < Len(op) - 2

\* C8: PUSH of several values is atomic: the step in which the length of the
\* list is read finds no handler part-way through its batch, and when a
\* handler's extend ends the list is the list it found under the lock
\* followed by its whole batch, no value of another handler in between.
C8_PushAtomic ==
    [][/\ (rpc = "reading" /\ rpc' = "release") =>
              \A h \in Handlers : ~MidBatch(hpc[h], hop[h], hdone[h])
       /\ \A h \in Handlers :
              (hpc[h] = "locked" /\ hpc'[h] = "unlock" /\ hop[h][2] = PUSH) =>
                  tables'[DefaultTable].lists[NameL] = hbase[h] \o Drop(hop[h], 2)]_vars

C8_Witness ==
    /\ hpc[1] = "unlock"
    /\ hop[1] = <<NameL, PUSH, VA, VB>>
    /\ hdone[1] = 2
    /\ hpc[2] = "lock"
    /\ hop[2] = <<NameL, PUSH, VB>>
    /\ rpc = "idle"
    /\ seen = 0
    /\ ConcList = <<VA, VB>>

\* C32: the list's write lock is taken and let go within the synchronous
\* part of the handler: a handler holds it exactly from list.write() to the
\* end of the statement or closure that mutates, never while its response is
\* written to the connection, and the one lock of the one list it names is
\* the only lock it takes in a call.
C32_NoLockAcrossWrite ==
    \A h \in Handlers :
        /\ hpc[h] = "respond" => rwlock.writer # h
        /\ rwlock.writer = h <=> hpc[h] \in {"locked", "mutate", "unlock"}
        /\ hpc[h] # "idle" => hop[h][1] = NameL

\* one handler writes its response while the other holds the lock
C32_Witness ==
    /\ hpc[1] = "respond"
    /\ hresp[1] = OKAY
    /\ hpc[2] = "mutate"
    /\ rwlock.writer = 2

\* the step in which handler h, having found list `base` under the lock,
\* ends its call on it
Linearized(h) ==
    /\ hpc[h] \in {"locked", "mutate"}
    /\ hpc'[h] = "unlock"
    /\ hop[h][2] # PUSH

\* C36: for INSERT, REMOVE and POP the test idx < len and the mutation run
\* under one hold of the write lock: under every interleaving no handler
\* panics on an index out of range, and each call ends as that call run alone
\* on the list it found when it took the lock, which no other handler has
\* touched in between; so the calls' outcomes are those of the calls run one
\* after another in the order they took the lock.
C36_CheckAndMutateUnderOneLock ==
    /\ [](\A h \in Handlers : hpc[h] # "panic")
    /\ [][\A h \in Handlers : Linearized(h) =>
             /\ ConcList = hbase[h]
             /\ hresp'[h] = lmod_response(tables, cur, hop[h], TRUE)
             /\ tables' = lmod_tables(tables, cur, hop[h], TRUE)
             /\ hresp'[h] = OKAY =>
                   (hop[h][2] = CLEAR \/ parse_usize(hop[h][3]) < Len(hbase[h]))]_vars

\* a REMOVE that found the index gone, the other handler's REMOVE having
\* emptied the list first, answers bad-index
C36_Witness ==
    /\ hop[1] = <<NameL, REMOVE, Decimal(0)>>
    /\ hop[2] = <<NameL, REMOVE, Decimal(0)>>
    /\ hpc[1] = "respond"
    /\ hresp[1] = OKAY
    /\ hpc[2] = "unlock"
    /\ hresp[2] = LISTMAP_BAD_INDEX
    /\ ConcList = <<>>

(***************************************************************************)
(* Claims about the handlers of the store, checked under Spec.              *)
(***************************************************************************)

\* the subcommand of an LMOD call, uppercased as the handler matches it
SubOf(act) == IF Len(act) > 1 THEN next_uppercase(act[2]) ELSE <<>>

\* an LMOD call of valid arity whose name, index and values are well formed
LmodWellFormed(act) ==
    /\ Len(act) > 1
    /\ is_utf8(act[1])
    /\ \/ SubOf(act) = CLEAR /\ Len(act) = 2
       \/ SubOf(act) = PUSH /\ Len(act) > 2 /\ \A i \in 3..Len(act) : is_utf8(act[i])
       \/ SubOf(act) = REMOVE /\ Len(act) = 3 /\ parse_usize(act[3]) # -1
       \/ SubOf(act) = INSERT /\ Len(act) = 4 /\ parse_usize(act[3]) # -1 /\ is_utf8(act[4])
       \/ SubOf(act) = POP /\ Len(act) \in {2, 3} /\ (Len(act) = 3 => parse_usize(act[3]) # -1)

\* the call just answered is an LMOD PUSH of at least one value on the
\* connection's list table
PushAnswered(c, tbls, sel) ==
    /\ c.action = "LMOD"
    /\ SubOf(c.act) = PUSH
    /\ Len(c.act) > 2
    /\ get_table_with_list(tbls, sel) = OKAY

\* C4: with the okay flag unset, every LMOD subcommand call of valid arity
\* with well-formed arguments, on a connection whose table is a list table
\* of any contents, responds with server-error.
C4_ServerErrorWhenUnset ==
    (/\ call.action = "LMOD"
     /\ ~okay
     /\ LmodWellFormed(call.act)
     /\ get_table_with_list(tables, cur) = OKAY) => call.resp = SERVER_ERR

\* C5: a step of an LMOD, CREATE or DROP handler taken with the okay flag
\* unset from its first line to its last leaves the keyspaces, the tables
\* and every list as they were.
C5_NoChangeWhenUnset ==
    [][(~okay /\ ~okay' /\ call'.action \in {"LMOD", "CREATE", "DROP"}) =>
           (keyspaces' = keyspaces /\ tables' = tables)]_vars

C5_Witness ==
    /\ ~okay
    /\ call.action = "DROP"
    /\ call.act = <<TABLE, EntT>>
    /\ call.resp = SERVER_ERR
    /\ cur = DefaultTable
    /\ DefaultTable \in DOMAIN tables
    /\ NameL \in DOMAIN tables[DefaultTable].lists
    /\ Len(tables[DefaultTable].lists[NameL]) = 2

\* C9: LMOD PUSH of v1..vn (n >= 1) on an existing list of contents s, with
\* the okay flag set and every value passing the value encoder, leaves the
\* list equal to s followed by v1..vn in argument order and responds okay;
\* on a missing list it responds nil.
C9_PushAppends ==
    [][(call = NoCall /\ PushAnswered(call', tables, cur)) =>
           /\ (/\ call'.act[1] \in DOMAIN tables[cur].lists
               /\ okay
               /\ \A i \in 3..Len(call'.act) : is_val_ok(tables[cur], call'.act[i])) =>
                  /\ tables'[cur].lists[call'.act[1]] =
                         tables[cur].lists[call'.act[1]] \o Drop(call'.act, 2)
                  /\ call'.resp = OKAY
           /\ call'.act[1] \notin DOMAIN tables[cur].lists => call'.resp = NIL]_vars

C9_Witness ==
    /\ PushAnswered(call, tables, cur)
    /\ call.act = <<NameL, PUSH, VB, VA>>
    /\ call.resp = OKAY
    /\ tables[cur].lists[NameL] = <<VA, VB, VA>>

\* C10: LMOD PUSH on an existing list validates the whole batch before it
\* mutates: if any one of the pushed values fails the table's value encoder
\* the response is encoding-error and the list is unchanged, the valid
\* values in front of the bad one included.
C10_PushAllOrNothing ==
    [][(/\ call = NoCall
        /\ PushAnswered(call', tables, cur)
        /\ call'.act[1] \in DOMAIN tables[cur].lists
        /\ \E i \in 3..Len(call'.act) : ~is_val_ok(tables[cur], call'.act[i])) =>
           (call'.resp = ENCODING_ERROR /\ tables' = tables)]_vars

C10_Witness ==
    /\ PushAnswered(call, tables, cur)
    /\ call.act = <<NameL, PUSH, VA, VX>>
    /\ call.resp = ENCODING_ERROR
    /\ tables[cur].lists[NameL] = <<VB>>

\* the call just answered is the LMOD subcommand sub with n arguments after
\* it, on the connection's list table
SubAnswered(c, tbls, sel, sub, n) ==
    /\ c.action = "LMOD"
    /\ SubOf(c.act) = sub
    /\ Len(c.act) = n + 2
    /\ get_table_with_list(tbls, sel) = OKAY

\* the list of the connection's table an LMOD call names
ListOf(tbls, sel, act) == tbls[sel].lists[act[1]]

\* an index argument is a non-empty string of ASCII decimal digits
IsDigits(bytes) == bytes # <<>> /\ \A i \in 1..Len(bytes) : is_ascii_digit(bytes[i])

\* an index argument is the decimal form of an index a usize holds
IsIndex(bytes) == IsDigits(bytes) /\ parse_usize(bytes) # -1

\* C11: LMOD INSERT at index i into an existing list of length L, with the
\* flag set and the value passing the encoder: for i < L the value is at
\* position i, the former elements i..L-1 are one place further right, the
\* length is L+1 and the response is okay; for i >= L (i = L and any index
\* on an empty list included) the list is unchanged and the response is
\* bad-index.
C11_InsertShiftsRight ==
    [][(/\ call = NoCall
        /\ SubAnswered(call', tables, cur, INSERT, 2)
        /\ call'.act[1] \in DOMAIN tables[cur].lists
        /\ okay
        /\ IsIndex(call'.act[3])
        /\ is_val_ok(tables[cur], call'.act[4])) =>
           IF parse_usize(call'.act[3]) < Len(ListOf(tables, cur, call'.act))
           THEN /\ call'.resp = OKAY
                /\ Len(ListOf(tables', cur, call'.act)) = Len(ListOf(tables, cur, call'.act)) + 1
                /\ \A j \in 1..Len(ListOf(tables', cur, call'.act)) :
                       ListOf(tables', cur, call'.act)[j] =
                           IF j <= parse_usize(call'.act[3])
                           THEN ListOf(tables, cur, call'.act)[j]
                           ELSE IF j = parse_usize(call'.act[3]) + 1
                           THEN call'.act[4]
                           ELSE ListOf(tables, cur, call'.act)[j - 1]
           ELSE call'.resp = LISTMAP_BAD_INDEX /\ tables' = tables]_vars

C11_Witness ==
    /\ SubAnswered(call, tables, cur, INSERT, 2)
    /\ call.act = <<NameL, INSERT, Decimal(1), VB>>
    /\ call.resp = OKAY
    /\ tables[cur].lists[NameL] = <<VA, VB, VA>>

\* C12: LMOD REMOVE with exactly one index on an existing list of length L,
\* with the flag set: for idx < L the element at idx is deleted, the suffix
\* is one place further left, the length is L-1 and the response is okay;
\* for idx >= L the list is unchanged and the response is bad-index; on a
\* missing list the response is nil.
C12_RemoveShiftsLeft ==
    [][(/\ call = NoCall
        /\ SubAnswered(call', tables, cur, REMOVE, 1)
        /\ okay
        /\ IsIndex(call'.act[3])) =>
           IF call'.act[1] \notin DOMAIN tables[cur].lists
           THEN call'.resp = NIL /\ tables' = tables
           ELSE IF parse_usize(call'.act[3]) < Len(ListOf(tables, cur, call'.act))
           THEN /\ call'.resp = OKAY
                /\ Len(ListOf(tables', cur, call'.act)) = Len(ListOf(tables, cur, call'.act)) - 1
                /\ \A j \in 1..Len(ListOf(tables', cur, call'.act)) :
                       ListOf(tables', cur, call'.act)[j] =
                           IF j <= parse_usize(call'.act[3])
                           THEN ListOf(tables, cur, call'.act)[j]
                           ELSE ListOf(tables, cur, call'.act)[j + 1]
           ELSE call'.resp = LISTMAP_BAD_INDEX /\ tables' = tables]_vars

C12_Witness ==
    /\ SubAnswered(call, tables, cur, REMOVE, 1)
    /\ call.act = <<NameL, REMOVE, Decimal(1)>>
    /\ call.resp = OKAY
    /\ tables[cur].lists[NameL] = <<VA, VB>>

\* C13: LMOD POP takes 0 or 1 arguments after the subcommand, more are an
\* action error. On an existing list with the flag set: with no index it
\* removes the last element, with idx < len it removes the element at idx
\* and the suffix moves left, and the response carries exactly the element
\* removed with the table's type symbol; with idx >= len the response is
\* bad-index and the list is unchanged. On a missing list, named as the
\* table's key encoder accepts, the response is nil.
C13_PopReturnsRemoved ==
    [][(/\ call = NoCall
        /\ call'.action = "LMOD"
        /\ SubOf(call'.act) = POP
        /\ get_table_with_list(tables, cur) = OKAY) =>
           IF Len(call'.act) > 3
           THEN call'.resp = ACTION_ERR /\ tables' = tables
           ELSE (/\ okay
                 /\ encode_key(tables[cur], call'.act[1])
                 /\ Len(call'.act) = 3 => IsIndex(call'.act[3])) =>
                    IF call'.act[1] \notin DOMAIN tables[cur].lists
                    THEN call'.resp = NIL /\ tables' = tables
                    ELSE IF Len(call'.act) = 2 /\ ListOf(tables, cur, call'.act) # <<>>
                    THEN /\ ListOf(tables, cur, call'.act) =
                                Append(ListOf(tables', cur, call'.act), call'.resp.val)
                         /\ call'.resp.group = "mono"
                         /\ call'.resp.tsym = get_value_tsymbol(tables[cur])
                    ELSE IF Len(call'.act) = 3
                            /\ parse_usize(call'.act[3]) < Len(ListOf(tables, cur, call'.act))
                    THEN /\ ListOf(tables, cur, call'.act) =
                                Take(ListOf(tables', cur, call'.act), parse_usize(call'.act[3]))
                                \o <<call'.resp.val>>
                                \o Drop(ListOf(tables', cur, call'.act), parse_usize(call'.act[3]))
                         /\ call'.resp.group = "mono"
                         /\ call'.resp.tsym = get_value_tsymbol(tables[cur])
                    ELSE Len(call'.act) = 3 =>
                             (call'.resp = LISTMAP_BAD_INDEX /\ tables' = tables)]_vars

C13_Witness ==
    /\ call.action = "LMOD"
    /\ call.act = <<NameL, POP, Decimal(1)>>
    /\ call.resp = Mono(TSYMBOL_UNICODE, VB)
    /\ tables[cur].lists[NameL] = <<VA, VA>>

\* C37: LMOD POP with no index on a list that exists and is empty, the flag
\* set, responds bad-index: not nil, and no value, empty or other; the list
\* is left empty and in the table, as is everything else. (With the flag
\* cleared the same call is answered server-error, like every mutation, and
\* changes as little.)
C37_PopEmptyIsBadIndex ==
    [][(/\ call = NoCall
        /\ SubAnswered(call', tables, cur, POP, 0)
        /\ call'.act[1] \in DOMAIN tables[cur].lists
        /\ ListOf(tables, cur, call'.act) = <<>>) =>
           /\ call'.resp = (IF okay THEN LISTMAP_BAD_INDEX ELSE SERVER_ERR)
           /\ call'.resp # NIL
           /\ call'.resp.group # "mono"
           /\ tables' = tables
           /\ call'.act[1] \in DOMAIN tables'[cur].lists
           /\ ListOf(tables', cur, call'.act) = <<>>]_vars

C37_Witness ==
    /\ SubAnswered(call, tables, cur, POP, 0)
    /\ call.act = <<NameL, PopLower>>
    /\ okay
    /\ call.resp = LISTMAP_BAD_INDEX
    /\ NameL \in DOMAIN tables[cur].lists
    /\ tables[cur].lists[NameL] = <<>>

\* C38: no LMOD call creates or deletes a list: whatever the subcommand, the
\* arguments, the flag and the table selected, the call leaves the set of
\* tables, each table's model and each table's set of list names as they
\* were, and every list but the one it names (in the connection's table) as
\* it was.
C38_LmodKeepsTheLists ==
    [][(call = NoCall /\ call'.action = "LMOD") =>
           /\ DOMAIN tables' = DOMAIN tables
           /\ keyspaces' = keyspaces
           /\ \A e \in DOMAIN tables :
                 /\ tables'[e].model = tables[e].model
                 /\ tables'[e].volatile = tables[e].volatile
                 /\ DOMAIN tables'[e].lists = DOMAIN tables[e].lists
                 /\ \A n \in DOMAIN tables[e].lists :
                       (e # cur \/ n # call'.act[1]) =>
                           tables'[e].lists[n] = tables[e].lists[n]]_vars

\* the last element of one list was removed; the list is still there, empty,
\* and the other list is as it was
C38_Witness ==
    /\ call.action = "LMOD"
    /\ call.act = <<NameL, REMOVE, Decimal(0)>>
    /\ call.resp = OKAY
    /\ cur \in DOMAIN tables
    /\ DOMAIN tables[cur].lists = {NameL, NameO}
    /\ tables[cur].lists[NameL] = <<>>
    /\ tables[cur].lists[NameO] = <<VB>>

\* the call of add_list just made, on the list table as it was
AddListCalled == call = NoCall /\ call'.action = "add_list"

\* C39: add_list creates a new empty list only when the name passes the
\* key-encoding validator: for a name that fails it returns None and creates
\* nothing; for a name that passes it returns Some(true) and the table holds
\* the new, empty list, or, a list of that name being there, Some(false) with
\* the list and its contents as they were.
C39_AddListValidatesName ==
    [][AddListCalled =>
           IF ~encode_key(tables[cur], call'.act[1])
           THEN call'.resp = Group("None") /\ tables' = tables
           ELSE IF call'.act[1] \in DOMAIN tables[cur].lists
           THEN call'.resp = Group("Some(false)") /\ tables' = tables
           ELSE /\ call'.resp = Group("Some(true)")
                /\ DOMAIN tables'[cur].lists = DOMAIN tables[cur].lists \cup {call'.act[1]}
                /\ tables'[cur].lists[call'.act[1]] = <<>>]_vars

\* what add_list does instead, on a table whose keys are encoded and on one
\* whose keys are not
C39_NoneForValidName ==
    /\ call.action = "add_list"
    /\ call.act = <<NameL>>
    /\ call.resp = Group("None")
    /\ NameL \notin DOMAIN tables[cur].lists

C39_ListForInvalidName ==
    /\ call.action = "add_list"
    /\ call.act = <<NameX>>
    /\ call.resp = Group("Some(true)")
    /\ KeyEncoded(tables[cur].model)
    /\ tables[cur].lists[NameX] = <<>>

\* C14: LMOD CLEAR with no further arguments on an existing list, with the
\* flag set, leaves that list in the table with length 0 and responds okay;
\* on a missing list it responds nil and changes nothing.
C14_ClearTruncates ==
    [][(call = NoCall /\ SubAnswered(call', tables, cur, CLEAR, 0)) =>
           IF call'.act[1] \notin DOMAIN tables[cur].lists
           THEN call'.resp = NIL /\ tables' = tables
           ELSE okay =>
                    /\ call'.resp = OKAY
                    /\ DOMAIN tables'[cur].lists = DOMAIN tables[cur].lists
                    /\ ListOf(tables', cur, call'.act) = <<>>]_vars

C14_Witness ==
    /\ SubAnswered(call, tables, cur, CLEAR, 0)
    /\ call.act = <<NameL, CLEAR>>
    /\ call.resp = OKAY
    /\ okay
    /\ NameL \in DOMAIN tables[cur].lists
    /\ tables[cur].lists[NameL] = <<>>

\* C15: for LMOD INSERT, REMOVE and POP an index argument that is not a
\* non-empty string of ASCII decimal digits (one with a sign such as '+',
\* a letter, or the empty string) yields wrongtype-error and leaves the
\* list unchanged.
C15_NonDigitIndexIsWrongtype ==
    [][(/\ call = NoCall
        /\ \/ SubAnswered(call', tables, cur, INSERT, 2)
           \/ SubAnswered(call', tables, cur, REMOVE, 1)
           \/ SubAnswered(call', tables, cur, POP, 1)
        /\ ~IsDigits(call'.act[3])) =>
           (call'.resp = WRONGTYPE /\ tables' = tables)]_vars

\* the call just answered is the DDL action what on a keyspace or a table
\* (kind), with n arguments after the kind
DdlAnswered(c, what, kind, n) ==
    /\ c.action = what
    /\ Len(c.act) = n + 1
    /\ next_uppercase(c.act[1]) = kind

\* C16: with the okay flag set, DROP KEYSPACE <ksid> force removes the
\* keyspace even when it still holds tables and responds okay, and DROP
\* KEYSPACE <ksid> without force on a keyspace that holds tables responds
\* with the not-empty error and leaves the keyspace and its tables in place.
C16_ForceDropRemoves ==
    [][(/\ call = NoCall
        /\ okay
        /\ call'.action = "DROP"
        /\ Len(call'.act) \in {2, 3}
        /\ next_uppercase(call'.act[1]) = KEYSPACE
        /\ call'.act[2] \in keyspaces
        /\ \E e \in DOMAIN tables : e[1] = call'.act[2]) =>
           /\ (Len(call'.act) = 3 /\ call'.act[3] = FORCE_REMOVE) =>
                  /\ call'.resp = OKAY
                  /\ call'.act[2] \notin keyspaces'
                  /\ \A e \in DOMAIN tables' : e[1] # call'.act[2]
           /\ Len(call'.act) = 2 =>
                  /\ call'.resp = NOT_EMPTY
                  /\ keyspaces' = keyspaces
                  /\ tables' = tables]_vars

C18_DuplicateIsAnError ==
    [][(call = NoCall /\ okay /\ call'.action = "CREATE") =>
           /\ (DdlAnswered(call', "CREATE", KEYSPACE, 1) /\ call'.act[2] \in keyspaces) =>
                  (call'.resp = ALREADY_EXISTS /\ keyspaces' = keyspaces /\ tables' = tables)
           /\ (/\ Len(call'.act) \in {3, 4}
               /\ next_uppercase(call'.act[1]) = TABLE
               /\ call'.resp \notin {BAD_EXPRESSION, UNKNOWN_PROPERTY, DEFAULT_UNSET}
               /\ entity_resolve(entity_from_slice(call'.act[2]), cur) \in DOMAIN tables) =>
                  (call'.resp = ALREADY_EXISTS /\ keyspaces' = keyspaces /\ tables' = tables)]_vars

C18_Witness ==
    /\ call.action = "CREATE"
    /\ call.act = <<TABLE, EntT, <<0>>>>
    /\ call.resp = ALREADY_EXISTS
    /\ DefaultTable \in DOMAIN tables
    /\ tables[DefaultTable].model = 7
    /\ NameL \in DOMAIN tables[DefaultTable].lists
    /\ tables[DefaultTable].lists[NameL] = <<VA, VB>>

(***************************************************************************)
(* Claims about the parser, checked under SpecParse.                        *)
(***************************************************************************)

\* C6: for a buffer that starts with a valid frame f, alone or followed by
\* trailing bytes, parse succeeds and reports consumed = |f|; advancing the
\* buffer by that count leaves exactly the bytes after the frame.
C6_ConsumedIsFrameLength ==
    (pframe.kind # "None" /\ pphase \in {"parsed", "advanced"}) =>
        /\ pfull.ok
        /\ pfull.consumed = Len(EncodeFrame(pframe))
        /\ pphase = "advanced" => pbuf = ptail

C6_Witness ==
    /\ pphase = "advanced"
    /\ pframe.kind = "Simple"
    /\ Len(pframe.data[1]) = 2
    /\ Len(ptail) = 1
    /\ pbuf = ptail

\* C7: the parser is prefix-monotonic: for every buffer b and split point k,
\* parse(b[..k]) is NotEnough or is the very result of parse(b) (the same
\* query and count n, with n <= k <= |b|, or the same error).
C7_PrefixMonotonic ==
    pphase = "parsed" =>
        \/ pres = ParseErr("NotEnough")
        \/ /\ pres = pfull
           /\ pres.ok => pres.consumed <= psplit
           /\ psplit <= Len(pbuf)

C7_Witness ==
    /\ pphase = "parsed"
    /\ pres.ok
    /\ pres.kind = "Pipelined"
    /\ Len(pres.data) = 2
    /\ psplit < Len(pbuf)
    /\ pres = pfull

\* an LF stands somewhere after the cursor c
HasLfFrom(buf, c) == \E k \in c + 1 .. Len(buf) : buf[k] = LF

\* the place of the first LF after the cursor c
FirstLf(buf, c) ==
    CHOOSE k \in c + 1 .. Len(buf) : buf[k] = LF /\ \A j \in c + 1 .. k - 1 : buf[j] # LF

\* the cursors at which parse reads the first two count or size lines of buf
LineStarts(buf) ==
    (IF Len(buf) >= 1 /\ buf[1] \in {STAR, DOLLAR} THEN {1} ELSE {})
    \cup (IF Len(buf) >= 3 /\ buf[1] \in {STAR, DOLLAR} /\ buf[2] = CH_1 /\ buf[3] = LF
          THEN {3} ELSE {})

\* what parse makes of a buffer whose count or size line at c is empty or
\* has no LF yet
EmptyLineRule(buf, c, r) ==
    /\ ~HasLfFrom(buf, c) => r = ParseErr("NotEnough")
    /\ (Len(buf) > c /\ buf[c + 1] = LF) => r = ParseErr("BadPacket")

\* C27: a count or size line is rejected when empty, by whether an LF was
\* seen alone: read from any cursor, a line with no LF in the rest of the
\* buffer (empty or not, digits or not) is NotEnough, an LF right at the
\* cursor is BadPacket, and any other line is returned up to its LF; parse
\* returns these very errors for the count line and the first size line.
C27_EmptyLineRejected ==
    pphase = "parsed" =>
        /\ \A c \in 0..Len(pbuf) :
              read_line_pedantic(pbuf, c) =
                 IF ~HasLfFrom(pbuf, c) THEN PErr("NotEnough")
                 ELSE IF pbuf[c + 1] = LF THEN PErr("BadPacket")
                 ELSE POk(<<c, FirstLf(pbuf, c) - 1 - c>>, FirstLf(pbuf, c))
        /\ \A c \in LineStarts(pbuf) : EmptyLineRule(pbuf, c, pfull)
        /\ \A c \in LineStarts(Take(pbuf, psplit)) : EmptyLineRule(Take(pbuf, psplit), c, pres)

\* an empty size line ended by LF was rejected as BadPacket, and the same
\* buffer cut before that LF as NotEnough
C27_Witness ==
    /\ pphase = "parsed"
    /\ pbuf = <<STAR, CH_1, LF, LF>>
    /\ psplit = 3
    /\ pfull = ParseErr("BadPacket")
    /\ pres = ParseErr("NotEnough")

\* C29: round trip: a simple query or a pipeline laid out by the grammar (any
\* count, element sizes from 0, a pipeline of no queries included) and handed
\* to the parser, alone or with bytes after it, comes back as the same kind
\* of query with the same elements, byte for byte and in the same order.
C29_RoundTrip ==
    (pframe.kind # "None" /\ pphase = "parsed") =>
        /\ pfull.ok
        /\ OwnedQuery(pbuf, pfull) = pframe
        /\ psplit >= Len(EncodeFrame(pframe)) => OwnedQuery(Take(pbuf, psplit), pres) = pframe

\* a pipeline of an empty query and a query whose second element is empty
\* came back as it was sent
C29_Witness ==
    /\ pphase = "parsed"
    /\ pframe = [kind |-> "Pipelined", data |-> << <<>>, << <<CH_a>>, <<>> >> >>]
    /\ ptail # <<>>
    /\ pfull.ok
    /\ Len(pfull.data) = 2
    /\ OwnedQuery(pbuf, pfull) = pframe

\* the slices of a parsed query in the order of the frame
RECURSIVE FlatSlices(_)
FlatSlices(data) == IF data = <<>> THEN <<>> ELSE Head(data) \o FlatSlices(Tail(data))

\* slices inside the first n bytes, each ending before the next begins
SlicesWithin(sl, n) ==
    /\ \A i \in 1..Len(sl) : sl[i][1] >= 1 /\ sl[i][2] >= 0 /\ sl[i][1] + sl[i][2] <= n
    /\ \A i \in 1..Len(sl) - 1 : sl[i][1] + sl[i][2] < sl[i + 1][1]

\* C30: every element slice of a query parse returns lies inside the input
\* buffer, within the first `consumed` bytes of it, and the slices of a frame
\* come in increasing order without overlap.
C30_SlicesInsideBuffer ==
    pphase = "parsed" =>
        /\ pfull.ok =>
              /\ pfull.consumed <= Len(pbuf)
              /\ SlicesWithin(FlatSlices(pfull.data), pfull.consumed)
        /\ pres.ok =>
              /\ pres.consumed <= psplit
              /\ SlicesWithin(FlatSlices(pres.data), pres.consumed)

\* a query of two elements of one byte each, with a byte after the frame
C30_Witness ==
    /\ pphase = "parsed"
    /\ pfull.ok
    /\ FlatSlices(pfull.data) = << <<5, 1>>, <<8, 1>> >>
    /\ pfull.consumed = 9
    /\ Len(pbuf) = 10

\* the code without its detail
Bare(rc) == IF rc.code = "OtherError" THEN OtherError(<<>>) ELSE rc

\* C40: the conversions of the response codes round-trip. For each of the
\* seven codes c: from_u8 of u8::from(c) is c, the detail of an OtherError
\* being the one handed to from_u8 (so c itself when c's own detail is handed
\* back); from_utf8 of the digit char::from(c), which is the ASCII digit of
\* u8::from(c), is the same code, an OtherError without detail. from_u8 is
\* None for every value above 6 and Some for every other; from_utf8 is None
\* for every byte outside '0'..'6' and Some for every other.
C40_CodesRoundTrip ==
    rconv.made =>
        /\ rconv.u8 \in 0..6
        /\ rconv.ch = CH_0 + rconv.u8
        /\ rconv.back = Some(IF rcode.code = "OtherError" THEN OtherError(rextra) ELSE rcode)
        /\ rextra = rcode.extra => rconv.back = Some(rcode)
        /\ rconv.backch = Some(Bare(rcode))
        /\ rbyte > 6 <=> rconv.of_u8 = <<>>
        /\ (rbyte < CH_0 \/ rbyte > CH_0 + 6) <=> rconv.of_utf8 = <<>>
        /\ rconv.of_u8 # <<>> => u8_from(rconv.of_u8[1]) = rbyte
        /\ rconv.of_utf8 # <<>> => char_from(rconv.of_utf8[1]) = rbyte

\* an OtherError with a detail went to '6' and came back without it, and the
\* byte '7' is no code
C40_Witness ==
    /\ rconv.made
    /\ rcode = OtherError(Some("x"))
    /\ rextra = Some("x")
    /\ rconv.back = Some(rcode)
    /\ rconv.backch = Some(OtherError(<<>>))
    /\ rbyte = CH_0 + 7
    /\ rconv.of_utf8 = <<>>
    /\ rconv.of_u8 = <<>>

\* C31 as stated: the parse of *2\n3\nGET is NotEnough, and with \n3\nfoo\n
\* appended the parse of the whole buffer is the Simple query GET foo
C31_TruncatedThenWhole ==
    (pphase = "parsed" /\ pbuf = GetFooLf /\ psplit = Len(GetCut)) =>
        /\ pres = ParseErr("NotEnough")
        /\ pfull.ok
        /\ pfull.kind = "Simple"
        /\ OwnedQuery(pbuf, pfull).data = GetFoo.data

\* C33: SYS METRIC health answers `good' exactly when the registry's okay
\* flag is set and `critical' otherwise, and changes neither the flag nor the
\* store.
SysHealth(c) ==
    /\ c.action = "SYS"
    /\ Len(c.act) = 2
    /\ next_lowercase(c.act[1]) = METRIC
    /\ next_lowercase(c.act[2]) = METRIC_HEALTH

C33_HealthFollowsOkay ==
    [][(call = NoCall /\ call' # NoCall /\ SysHealth(call')) =>
          /\ call'.resp \in {Str(GOOD), Str(CRITICAL)}
          /\ call'.resp = Str(GOOD) <=> okay
          /\ call'.resp = Str(CRITICAL) <=> ~okay
          /\ UNCHANGED <<okay, keyspaces, tables, cur>>]_vars

C33_Witness ==
    /\ SysHealth(call)
    /\ ~okay
    /\ call.resp = Str(CRITICAL)
    /\ DefaultTable \in DOMAIN tables

\* C31: the parse of the bytes *2\n3\nGET is NotEnough; once the rest of the
\* frame as the layout has it, 3\nfoo, has been appended, the parse of the
\* whole buffer is the full frame, a Simple query with the elements GET and
\* foo and every byte consumed; with \n3\nfoo\n appended instead, the LF
\* after GET is an empty size line and the parse is BadPacket.
C31_TruncatedThenWholeByLayout ==
    /\ (pphase = "parsed" /\ pframe = GetFoo /\ ptail = <<>> /\ psplit = Len(GetCut)) =>
          /\ Take(pbuf, psplit) = GetCut
          /\ pbuf = GetCut \o <<CH_0 + 3, LF, 102, 111, 111>>
          /\ pres = ParseErr("NotEnough")
          /\ pfull.ok
          /\ pfull.kind = "Simple"
          /\ pfull.consumed = Len(pbuf)
          /\ OwnedQuery(pbuf, pfull).data = << << <<71, 69, 84>>, <<102, 111, 111>> >> >>
    /\ (pphase = "parsed" /\ pbuf = GetFooLf /\ psplit = Len(GetCut)) =>
          /\ pres = ParseErr("NotEnough")
          /\ pfull = ParseErr("BadPacket")

C31_Witness ==
    /\ pphase = "parsed"
    /\ pframe = GetFoo
    /\ ptail = <<>>
    /\ psplit = 8
    /\ pres = ParseErr("NotEnough")
    /\ pfull.ok
    /\ Len(pfull.data[1]) = 2

====
